---- MODULE Spec2Model ----
(***************************************************************************)
(* A model of the restaurant ingestion pipeline:                           *)
(*   - resilient navigation  (naver_place_antigravity_patched.py)          *)
(*   - the category classifier and its cache  (crawlers/llm_classifier.py) *)
(*   - the restaurant store's upsert  (crawlers/db_manager.py)             *)
(*   - the crawl orchestrator  (naver_place_antigravity_patched.py, main)  *)
(*   - the category filters  (check_if_restaurant, categorize_restaurant)  *)
(*   - the browser session of the crawler  (_restart_driver, close)        *)
(*   - the recommendation service  (services/recommend)                    *)
(* Each component has its own specification over the shared variables; the *)
(* orchestrator's specification calls the classifier and the store through *)
(* the same operators as the component specifications.                     *)
(*                                                                         *)
(* Korean text is written in ASCII: one token per Hangul syllable,         *)
(* romanised jamo by jamo (e.g. <<"ka","pe">> is the string "카페").       *)
(***************************************************************************)
EXTENDS Integers, Sequences, FiniteSets, TLC

VARIABLES nav, llm, db, dicts, run, flt, drv, rcm, svc, crl, pace

vars == <<nav, llm, db, dicts, run, flt, drv, rcm, svc, crl, pace>>

\* Python's None / a missing dict key.
Null == "None"

(***************************************************************************)
(* Resilient navigation: AntiGravityNaverPlaceCrawler._safe_get            *)
(***************************************************************************)

\* Largest attempt count of a call (callers pass 1, 2, 4 and 5; with 6 the
\* backoff reaches its cap).
MaxTries == 6

\* The three soft-block phrases of ERROR_TEXTS.
ERROR_TEXTS == {"temporarily_unavailable", "try_again_later", "request_not_processed"}

\* What the browser shows: the soft-block phrases the page source contains,
\* and whether reading the page source raises.
PageSources ==
    [texts : SUBSET ERROR_TEXTS, readable : {TRUE}]
    \cup {[texts |-> {}, readable |-> FALSE]}

\* The page before the first navigation of a session.
BlankPage == [texts |-> {}, readable |-> TRUE]

\* page_has_temp_error: any phrase present; an exception counts as "no error".
page_has_temp_error(page) ==
    IF page.readable THEN \E t \in ERROR_TEXTS : t \in page.texts ELSE FALSE

\* random.uniform(0.6, 1.6), in tenths of a second.
JitterTenths == {6, 11, 16}

\* The 20 second cap of the backoff, in tenths of a second.
BackoffCapTenths == 200

Min(a, b) == IF a <= b THEN a ELSE b

\* A mutant of the backoff: the delay is not capped.
BackoffTenthsUncapped(i, jitter) == 10 * (2 ^ i) + jitter

\* sleep_s = min((2 ** i) + random.uniform(0.6, 1.6), 20), in tenths.
BackoffTenths(i, jitter) == Min(10 * (2 ^ i) + jitter, BackoffCapTenths)

\* A mutant of the loop bound: one attempt too many.
SafeGetExhaustedOffByOne(i, tries) == i > tries

\* for i in range(tries): the loop is over once i attempts were made.
SafeGetExhausted(i, tries) == i >= tries

NavIdle ==
    [pc |-> "idle", tries |-> 0, i |-> 0, gets |-> 0, blocked |-> 0,
     getRaised |-> FALSE, page |-> BlankPage, ret |-> "none", sleeps |-> <<>>]

\* A caller enters _safe_get(url, tries).
SafeGetCall(tries) ==
    /\ nav.pc \in {"idle", "done"}
    /\ nav' = [NavIdle EXCEPT !.pc = IF SafeGetExhausted(0, tries) THEN "done" ELSE "loop",
                              !.tries = tries,
                              !.page = nav.page,
                              !.ret = IF SafeGetExhausted(0, tries) THEN "False" ELSE "none"]
    /\ UNCHANGED <<llm, db, dicts, run, flt, drv, rcm, svc, crl, pace>>

\* One iteration of the loop: driver.get(url) (which may raise and leave the
\* previous page), the scroll actions, the soft-block test, and on a block the
\* backoff sleep and the re-navigation to the landing page.
SafeGetAttempt(getRaises, shown, jitter, home) ==
    /\ nav.pc = "loop"
    /\ LET page    == IF getRaises THEN nav.page ELSE shown
           blocked == page_has_temp_error(page)
           i2      == nav.i + 1
       IN  nav' = IF ~blocked
                  THEN [nav EXCEPT !.pc = "done", !.gets = @ + 1, !.page = page,
                                   !.getRaised = getRaises, !.ret = "True"]
                  ELSE [nav EXCEPT !.pc = IF SafeGetExhausted(i2, nav.tries)
                                          THEN "done" ELSE "loop",
                                   !.i = i2, !.gets = @ + 1, !.blocked = @ + 1,
                                   !.getRaised = getRaises,
                                   !.page = home,
                                   !.sleeps = Append(@, BackoffTenths(nav.i, jitter)),
                                   !.ret = IF SafeGetExhausted(i2, nav.tries)
                                           THEN "False" ELSE "none"]
    /\ UNCHANGED <<llm, db, dicts, run, flt, drv, rcm, svc, crl, pace>>

(***************************************************************************)
(* Category classifier: LLMClassifier                                      *)
(***************************************************************************)

\* Place identifiers (strings of digits in the program).
PlaceIds == {"1", "2"}

\* "한식", "일식", "중식", "양식", "아시안", "분식", "고기", "해산물", "기타"
allowed_categories ==
    {"hansik", "ilsik", "jungsik", "yangsik", "asian", "bunsik", "gogi",
     "haesanmul", "gita"}

\* "기타", the fallback label.
Gita == "gita"

\* Labels a response or a cache file may carry under "category_9": a listed
\* label, the fallback label, a label outside the list ("카페"), or no key.
SeenLabels == {"hansik", "gita", "cafe", Null}

\* Values under "is_restaurant": true, false, or no key.
SeenFlags == {"True", "False", Null}

\* A JSON value stored under a place id: a dict with the two keys (Null: key
\* missing), or something that is not a dict.
DictEntries == [dict : {TRUE}, is_restaurant : SeenFlags, category_9 : SeenLabels]
NotADict == [dict |-> FALSE, is_restaurant |-> Null, category_9 |-> Null]
Entries == DictEntries \cup {NotADict}

\* dict.get(key, default)
Get(value, default) == IF value = Null THEN default ELSE value

\* The cache file: missing, unparsable, or a JSON object of entries.
EmptyMap == [p \in {} |-> NotADict]
AbsentFile == [state |-> "absent", entries |-> EmptyMap]
CorruptFile == [state |-> "corrupt", entries |-> EmptyMap]
JsonFile(entries) == [state |-> "json", entries |-> entries]

\* _load_cache: the file's entries; absent or unreadable file -> {}.
LoadCache(disk) == IF disk.state = "json" THEN disk.entries ELSE EmptyMap

\* Outcomes of writing the cache file: written; open() raised (file untouched);
\* json.dump raised after open() truncated the file.
SaveOutcomes == {"written", "open_failed", "dump_failed"}

\* _save_cache: the file after the attempt.
SaveCache(cache, disk, outcome) ==
    CASE outcome = "written"     -> JsonFile(cache)
      [] outcome = "open_failed" -> disk
      [] outcome = "dump_failed" -> CorruptFile

\* What the inference endpoint does: a 200 with a JSON dict, a non-200 status,
\* a timeout or connection error, a body that does not parse, a JSON value
\* that is not a dict.
ResponseKinds == {"ok", "http_error", "timeout", "bad_json", "not_dict"}
Responses ==
    [kind : {"ok"}, is_restaurant : SeenFlags, category_9 : SeenLabels]
    \cup [kind : ResponseKinds \ {"ok"}, is_restaurant : {Null}, category_9 : {Null}]

\* A mutant of the cache-hit validation: the stored label is returned as is.
CachedCategoryUnchecked(res) == Get(res.category_9, Gita)

\* cat = res.get("category_9", "기타"); if cat not in allowed: cat = "기타"
CachedCategory(res) ==
    LET cat == Get(res.category_9, Gita)
    IN  IF cat \notin allowed_categories THEN Gita ELSE cat

\* A mutant of the validation of a fresh result: the label is taken as is.
ValidatedCategoryUnchecked(result) == Get(result.category_9, Gita)

\* The same validation of a fresh result.
ValidatedCategory(result) ==
    LET cat == Get(result.category_9, Gita)
    IN  IF cat \notin allowed_categories THEN Gita ELSE cat

\* A mutant of the cache update: the result is not stored.
CacheStoreDropped(cache, place_id, result) == cache

\* self.cache[place_id] = result
CacheStore(cache, place_id, result) ==
    [p \in DOMAIN cache \cup {place_id} |->
        IF p = place_id THEN result ELSE cache[p]]

\* What one call did: the path it returned through ("hit", "success", "fail",
\* or "raise" when it did not return), the pair it returned, whether it issued
\* an inference call, and the label it found (in the cache or the response).
NoCall ==
    [path |-> "none", is_restaurant |-> Null, category |-> Null,
     inferred |-> FALSE, found |-> Null]

\* classify(place_id, ...): the cache and the file after the call, and what
\* the call did.
Classify(cache, disk, place_id, resp, save) ==
    IF place_id \in DOMAIN cache
    THEN LET res == cache[place_id]
         IN  IF ~res.dict
             THEN \* res.get raises: not a dict
                  [cache |-> cache, disk |-> disk,
                   call |-> [NoCall EXCEPT !.path = "raise"]]
             ELSE [cache |-> cache, disk |-> disk,
                   call |-> [path |-> "hit",
                             is_restaurant |-> Get(res.is_restaurant, "False"),
                             category |-> CachedCategory(res),
                             inferred |-> FALSE,
                             found |-> res.category_9]]
    ELSE LET failed(c, d) ==
                 [cache |-> c, disk |-> d,
                  call |-> [path |-> "fail", is_restaurant |-> "False",
                            category |-> Gita, inferred |-> TRUE,
                            found |-> Null]]
         IN  IF resp.kind # "ok"
             THEN failed(cache, disk)
             ELSE LET cat    == ValidatedCategory(resp)
                      result == [dict |-> TRUE,
                                 is_restaurant |-> resp.is_restaurant,
                                 category_9 |-> cat]
                      cache2 == CacheStore(cache, place_id, result)
                      disk2  == SaveCache(cache2, disk, save)
                  IN  IF save # "written"
                      THEN \* _save_cache raised inside the try block
                           failed(cache2, disk2)
                      ELSE [cache |-> cache2, disk |-> disk2,
                            call |-> [path |-> "success",
                                      is_restaurant |-> Get(resp.is_restaurant, "False"),
                                      category |-> cat,
                                      inferred |-> TRUE,
                                      found |-> resp.category_9]]

\* Number of classify calls explored.
MaxCalls == 3

NoCalls == [p \in PlaceIds |-> NoCall]

\* LLMClassifier(...): the cache is loaded from the file.
LLMConstructed(disk) ==
    [cache |-> LoadCache(disk), disk |-> disk, calls |-> 0,
     last |-> NoCalls, prev |-> NoCalls]

\* Cache files found at start: none, an unreadable one, an empty object, or
\* an object with an entry for place id "1".
InitialDisks ==
    {AbsentFile, CorruptFile, JsonFile(EmptyMap)}
    \cup {JsonFile([p \in {"1"} |-> e]) : e \in Entries}

\* The program is started again: a new classifier loads the file.
LLMConstruct ==
    /\ llm.calls > 0
    /\ llm' = [LLMConstructed(llm.disk) EXCEPT !.calls = llm.calls]
    /\ UNCHANGED <<nav, db, dicts, run, flt, drv, rcm, svc, crl, pace>>

\* A caller classifies place_id; the endpoint answers resp and the cache file
\* write ends as save.
ClassifyCall(place_id, resp, save) ==
    /\ llm.calls < MaxCalls
    /\ LET r == Classify(llm.cache, llm.disk, place_id, resp, save)
       IN  llm' = [cache |-> r.cache, disk |-> r.disk, calls |-> llm.calls + 1,
                   last |-> [llm.last EXCEPT ![place_id] = r.call],
                   prev |-> [llm.prev EXCEPT ![place_id] = llm.last[place_id]]]
    /\ UNCHANGED <<nav, db, dicts, run, flt, drv, rcm, svc, crl, pace>>

(***************************************************************************)
(* Restaurant store: DBManager.upsert_restaurant                           *)
(***************************************************************************)

\* int(place_id) and str(id) on the place ids of the model.
IntOf(place_id) == CASE place_id = "1" -> 1 [] place_id = "2" -> 2
StrOf(id) == CASE id = 1 -> "1" [] id = 2 -> "2"
Ids == {IntOf(p) : p \in PlaceIds}

\* Restaurant names.
Names == {"A", "B"}

\* A dict without the key 'created_at' / 'updated_at'.
NoTime == 0

\* Number of upsert calls explored; datetime.now() advances with every call.
MaxUpserts == 3

\* The table: a row per id, with the columns the upsert treats differently.
EmptyTable == [id \in {} |-> [name |-> "A", created_at |-> NoTime, updated_at |-> NoTime]]

\* The record dicts callers hold (the argument of upsert_restaurant is
\* mutated in place, so a dict is an object with an identity).
DictRefs == {"d1", "d2"}
NoDict == [id |-> 0, name |-> Null, created_at |-> NoTime, updated_at |-> NoTime]

\* db_data = {"id": ..., "name": ..., ...}: a new dict without timestamps.
NewDict(id, name) ==
    [id |-> id, name |-> name, created_at |-> NoTime, updated_at |-> NoTime]

\* if 'created_at' not in data: data['created_at'] = now  (same for updated_at)
AddTimestamps(data, now) ==
    [data EXCEPT !.created_at = IF @ = NoTime THEN now ELSE @,
                 !.updated_at = IF @ = NoTime THEN now ELSE @]

\* INSERT ... ON DUPLICATE KEY UPDATE: a new row takes every column; an
\* existing row keeps id and created_at and takes the rest.
ExecuteUpsert(table, data) ==
    [id \in DOMAIN table \cup {data.id} |->
        IF id # data.id THEN table[id]
        ELSE IF id \in DOMAIN table
             THEN [table[id] EXCEPT !.name = data.name,
                                    !.updated_at = data.updated_at]
             ELSE [name |-> data.name, created_at |-> data.created_at,
                   updated_at |-> data.updated_at]]

\* A mutant of the error handler: the transaction is left open.
RollbackSkipped(rows, txn) == txn

\* self.conn.rollback(): the transaction's view returns to the committed rows.
Rollback(rows, txn) == rows

\* How one call ends: all goes well; an exception leaves the method (raised
\* by conn.cursor() before the try block); cursor.execute or conn.commit
\* raises a mysql.connector.Error.
UpsertOutcomes == {"ok", "raises", "execute_error", "commit_error"}
DatabaseErrors == {"execute_error", "commit_error"}

\* upsert_restaurant(data): the committed rows, the transaction's view of the
\* table, the caller's dict after the call, and whether the call raised.
Upsert(rows, txn, now, data, outcome) ==
    IF outcome = "raises"
    THEN [rows |-> rows, txn |-> txn, data |-> data, raised |-> TRUE]
    ELSE LET data2 == AddTimestamps(data, now)
             txn2  == IF outcome = "execute_error" THEN txn
                      ELSE ExecuteUpsert(txn, data2)
         IN  IF outcome = "ok"
             THEN [rows |-> txn2, txn |-> txn2, data |-> data2, raised |-> FALSE]
             ELSE [rows |-> rows, txn |-> Rollback(rows, txn2), data |-> data2,
                   raised |-> FALSE]

NoUpsert == [id |-> 0, name |-> Null, outcome |-> "none", raised |-> FALSE]

DbOpened(rows) == [rows |-> rows, txn |-> rows, now |-> 1, calls |-> 0, last |-> NoUpsert]

\* The store after upsert_restaurant(data) ended as outcome.
DbAfterUpsert(d, data, outcome) ==
    LET r == Upsert(d.rows, d.txn, d.now, data, outcome)
    IN  [rows |-> r.rows, txn |-> r.txn, now |-> d.now + 1, calls |-> d.calls + 1,
         last |-> [id |-> data.id, name |-> data.name, outcome |-> outcome,
                   raised |-> r.raised]]

\* A caller builds a record dict.
MakeDict(ref, id, name) ==
    /\ dicts' = [dicts EXCEPT ![ref] = NewDict(id, name)]
    /\ UNCHANGED <<nav, llm, db, run, flt, drv, rcm, svc, crl, pace>>

\* A caller changes the name in a dict it holds.
SetName(ref, name) ==
    /\ dicts[ref] # NoDict
    /\ dicts[ref].name # name
    /\ dicts' = [dicts EXCEPT ![ref].name = name]
    /\ UNCHANGED <<nav, llm, db, run, flt, drv, rcm, svc, crl, pace>>

\* A caller passes a dict it holds to upsert_restaurant.
UpsertCall(ref, outcome) ==
    /\ dicts[ref] # NoDict
    /\ db.calls < MaxUpserts
    /\ db' = DbAfterUpsert(db, dicts[ref], outcome)
    /\ dicts' = [dicts EXCEPT ![ref] = Upsert(db.rows, db.txn, db.now, @, outcome).data]
    /\ UNCHANGED <<nav, llm, run, flt, drv, rcm, svc, crl, pace>>

(***************************************************************************)
(* Categorization: check_if_restaurant, categorize_restaurant              *)
(***************************************************************************)

\* A raw category is a sequence of syllable tokens; None and "" are both the
\* empty sequence (the code tests them with "if not category").
NoText == <<>>

\* x in c, for strings as token sequences.
Contains(c, x) ==
    \E k \in 0..(Len(c) - Len(x)) : \A j \in 1..Len(x) : c[k + j] = x[j]

\* str.strip(): leading and trailing blanks removed.
RECURSIVE Strip(_)
Strip(c) ==
    IF c = <<>> THEN c
    ELSE IF Head(c) = " " THEN Strip(Tail(c))
    ELSE IF c[Len(c)] = " " THEN Strip(SubSeq(c, 1, Len(c) - 1))
    ELSE c

\* non_res_kws, the 1st filter keywords (35)
non_res_kws ==
    {<<"ka", "pe">>, <<"di", "jeo", "teu">>, <<"be", "i", "keo", "ri">>,
     <<"keo", "pi">>, <<"ppang", "jib">>, <<"ke", "i", "keu">>,
     <<"saen", "deu", "wi", "chi">>, <<"do", "neos">>, <<"bing", "su">>,
     <<"gol", "peu">>, <<"ui", "ryu">>, <<"pae", "syeon">>, <<"ne", "il">>,
     <<"mi", "yong">>, <<"hag", "won">>, <<"pyeon", "ui", "jeom">>, <<"ma", "teu">>,
     <<"jeong", "yug", "jeom">>, <<"sa", "mu", "sil">>, <<"bu", "dong", "san">>,
     <<"byeong", "won">>, <<"yag", "gug">>, <<"seo", "jeom">>, <<"kkoch", "jib">>,
     <<"ju", "cha", "jang">>, <<"we", "eo">>, <<"seu", "po", "cheu", "yong", "pum">>,
     <<"baeg", "hwa", "jeom">>, <<"syo", "ping">>, <<"su", "seon">>, <<"ui", "bog">>,
     <<"yeong", "hwa", "gwan">>, <<"beu", "reon", "chi">>, <<"be", "i", "geul">>,
     <<"ban", "chan", "ga", "ge">>}

\* 한식 (29 keywords)
Kws_hansik ==
    {<<"baeg", "ban">>, <<"ga", "jeong", "sig">>, <<"hae", "jang", "gug">>,
     <<"seol", "reong", "tang">>, <<"gom", "tang">>, <<"gal", "bi", "tang">>,
     <<"gim", "chi", "jji", "gae">>, <<"doen", "jang", "jji", "gae">>,
     <<"bu", "dae", "jji", "gae">>, <<"han", "jeong", "sig">>, <<"gug", "bab">>,
     <<"naeng", "myeon">>, <<"sam", "gye", "tang">>, <<"baeg", "sug">>, <<"o", "ri">>,
     <<"jji", "gae">>, <<"mag", "gug", "su">>, <<"kal", "gug", "su">>, <<"gug", "su">>,
     <<"myeon", "yo", "ri">>, <<"du", "bu">>, <<"jeon", "gol">>, <<"sun", "du", "bu">>,
     <<"sya", "beu", "sya", "beu">>, <<"sun", "dae", "gug">>, <<"sun", "daes", "gug">>,
     <<"bo", "ri", "bab">>, <<"dalg", "yo", "ri">>, <<"jjim", "dalg">>}

\* 일식 (16 keywords)
Kws_ilsik ==
    {<<"cho", "bab">>, <<"seu", "si">>, <<"ka", "cheu">>, <<"don", "ga", "seu">>,
     <<"don", "kka", "seu">>, <<"ten", "dong">>, <<"o", "ma", "ka", "se">>,
     <<"ra", "men">>, <<"u", "dong">>, <<"so", "ba">>, <<"i", "ja", "ka", "ya">>,
     <<"ra", "myeon">>, <<"deop", "bab">>, <<"o", "deng">>, <<"ya", "ki", "to", "ri">>,
     <<"o", "ni", "gi", "ri">>}

\* 중식 (7 keywords)
Kws_jungsik ==
    {<<"jja", "jang">>, <<"jjam", "ppong">>, <<"tang", "su", "yug">>,
     <<"ma", "ra", "tang">>, <<"ma", "ra", "syang", "gwo">>, <<"hwo", "gwo">>,
     <<"jung", "sig", "dang">>}

\* 양식 (13 keywords)
Kws_yangsik ==
    {<<"pa", "seu", "ta">>, <<"pi", "ja">>, <<"ri", "jo", "tto">>,
     <<"seu", "te", "i", "keu">>, <<"i", "tal", "ri", "a">>, <<"beo", "geo">>,
     <<"seu", "pe", "in">>, <<"pa", "e", "ya">>, <<"ta", "pa", "seu">>,
     <<"meg", "si", "ko">>, <<"kwe", "sa", "di", "a">>, <<"na", "cho">>, <<"nam", "mi">>}

\* 아시안 (11 keywords)
Kws_asian ==
    {<<"ssal", "gug", "su">>, <<"pas", "ta", "i">>, <<"keo", "ri">>, <<"ka", "re">>,
     <<"ke", "bab">>, <<"ta", "ko">>, <<"bu", "ri", "tto">>, <<"a", "si", "a">>,
     <<"tae", "gug">>, <<"be", "teu", "nam">>, <<"in", "do", "eum", "sig">>}

\* 분식 (4 keywords)
Kws_bunsik ==
    {<<"tteog", "bokk", "i">>, <<"sun", "dae">>, <<"twi", "gim">>, <<"gim", "bab">>}

\* 고기 (13 keywords)
Kws_gogi ==
    {<<"sam", "gyeob", "sal">>, <<"mog", "sal">>, <<"gal", "bi">>, <<"han", "u">>,
     <<"gob", "chang">>, <<"mag", "chang">>, <<"dae", "chang">>,
     <<"yang", "kko", "chi">>, <<"gu", "i">>, <<"yang", "gal", "bi">>,
     <<"jog", "bal">>, <<"bo", "ssam">>, <<"jeong", "yug", "sig", "dang">>}

\* 해산물 (22 keywords)
Kws_haesanmul ==
    {<<"sa", "si", "mi">>, <<"jo", "gae", "gu", "i">>, <<"king", "keu", "raeb">>,
     <<"hoes", "jib">>, <<"saeng", "seon", "hoe">>, <<"mae", "un", "tang">>,
     <<"o", "jing", "eo">>, <<"nag", "ji">>, <<"jju", "kku", "mi">>,
     <<"ju", "kku", "mi">>, <<"ko", "da", "ri">>, <<"myeong", "tae">>, <<"a", "gu">>,
     <<"jjim">>, <<"ge", "jang">>, <<"jeon", "bog">>, <<"mun", "eo">>,
     <<"jang", "eo">>, <<"ge", "yo", "ri">>, <<"jo", "gae", "yo", "ri">>,
     <<"saeng", "seon", "gu", "i">>, <<"gul", "yo", "ri">>}

\* 기타 (10 keywords)
Kws_gita ==
    {<<"chi", "kin">>, <<"ho", "peu">>, <<"maeg", "ju">>, <<"sul", "jib">>,
     <<"po", "jang", "ma", "cha">>, <<"wa", "in", "ba">>, <<"bwi", "pe">>,
     <<"yo", "ri", "ju", "jeom">>, <<"B", "A", "R">>, <<"ba", "(", "B", "A", "R", ")">>}

\* The definite mapping, in the order of the if statements.
DefiniteGroups ==
    <<[label |-> "hansik", kws |-> Kws_hansik],
     [label |-> "ilsik", kws |-> Kws_ilsik],
     [label |-> "jungsik", kws |-> Kws_jungsik],
     [label |-> "yangsik", kws |-> Kws_yangsik],
     [label |-> "asian", kws |-> Kws_asian],
     [label |-> "bunsik", kws |-> Kws_bunsik],
     [label |-> "gogi", kws |-> Kws_gogi],
     [label |-> "haesanmul", kws |-> Kws_haesanmul],
     [label |-> "gita", kws |-> Kws_gita]>>

\* The general mapping (fallback), in the order of the if statements.
GeneralMapping ==
    <<[kw |-> <<"han", "sig">>, label |-> "hansik"],
     [kw |-> <<"il", "sig">>, label |-> "ilsik"],
     [kw |-> <<"jung", "sig">>, label |-> "jungsik"],
     [kw |-> <<"yang", "sig">>, label |-> "yangsik"],
     [kw |-> <<"a", "si", "a">>, label |-> "asian"],
     [kw |-> <<"bun", "sig">>, label |-> "bunsik"],
     [kw |-> <<"go", "gi">>, label |-> "gogi"],
     [kw |-> <<"yug", "ryu">>, label |-> "gogi"],
     [kw |-> <<"hae", "mul">>, label |-> "haesanmul"],
     [kw |-> <<"hae", "san", "mul">>, label |-> "haesanmul"]>>

\* A mutant of the 1st filter: a category with a general restaurant name in
\* it passes whatever else it contains.
check_if_restaurantLenient(category) ==
    \/ category = NoText
    \/ \E g \in 1..Len(GeneralMapping) : Contains(category, GeneralMapping[g].kw)
    \/ ~ \E x \in non_res_kws : Contains(Strip(category), x)

\* check_if_restaurant: the 1st filter; an absent category passes.
check_if_restaurant(category) ==
    IF category = NoText THEN TRUE
    ELSE LET c == Strip(category)
         IN  ~ \E x \in non_res_kws : Contains(c, x)

SetMin(S) == CHOOSE m \in S : \A n \in S : m <= n

\* A mutant of stage 2: among the matching groups the last one wins.
categorize_restaurantLastMatch(naver_category) ==
    LET c == Strip(naver_category)
        strict  == {g \in 1..Len(DefiniteGroups) :
                       \E x \in DefiniteGroups[g].kws : Contains(c, x)}
        general == {g \in 1..Len(GeneralMapping) :
                       Contains(c, GeneralMapping[g].kw)}
    IN  IF strict # {}
        THEN [label |-> DefiniteGroups[CHOOSE g \in strict :
                                          \A h \in strict : h <= g].label,
              definite |-> TRUE]
        ELSE IF general # {}
        THEN [label |-> GeneralMapping[SetMin(general)].label, definite |-> TRUE]
        ELSE [label |-> Gita, definite |-> FALSE]

\* categorize_restaurant: (category_name, is_definite); the first matching
\* if statement returns.
categorize_restaurant(naver_category) ==
    IF naver_category = NoText THEN [label |-> Gita, definite |-> FALSE]
    ELSE LET c == Strip(naver_category)
             strict  == {g \in 1..Len(DefiniteGroups) :
                            \E x \in DefiniteGroups[g].kws : Contains(c, x)}
             general == {g \in 1..Len(GeneralMapping) :
                            Contains(c, GeneralMapping[g].kw)}
         IN  IF strict # {}
             THEN [label |-> DefiniteGroups[SetMin(strict)].label, definite |-> TRUE]
             ELSE IF general # {}
             THEN [label |-> GeneralMapping[SetMin(general)].label, definite |-> TRUE]
             ELSE [label |-> Gita, definite |-> FALSE]

\* Number of keywords and fillers a raw category of the filter
\* specification is made of.
MaxParts == 2

\* Every keyword of the strict groups, of the general mapping and of the 1st
\* filter.
AllKeywords ==
    UNION {DefiniteGroups[g].kws : g \in 1..Len(DefiniteGroups)}
    \cup {GeneralMapping[g].kw : g \in 1..Len(GeneralMapping)}
    \cup non_res_kws

\* Text that matches no keyword: "음식점", "요리", a blank.
Fillers == {<<"eum", "sig", "jeom">>, <<"yo", "ri">>, <<" ">>}

\* Keywords put before or after another part: the first keyword of 한식 and
\* of 일식, "구이" (고기), "오징어" and "찜" (해산물), "뷔페" (기타), the
\* general names "한식" and "해물", and the fillers.
JoinedParts ==
    {<<"baeg", "ban">>, <<"cho", "bab">>, <<"gu", "i">>,
     <<"o", "jing", "eo">>, <<"jjim">>, <<"bwi", "pe">>,
     <<"han", "sig">>, <<"hae", "mul">>} \cup Fillers

\* Raw categories of at most n parts.
RECURSIVE RawCategories(_)
RawCategories(n) ==
    IF n = 0 THEN {NoText}
    ELSE IF n = 1 THEN {NoText} \cup AllKeywords \cup Fillers
    ELSE LET shorter == RawCategories(n - 1)
         IN  shorter \cup {c \o x : c \in shorter, x \in JoinedParts}
                     \cup {x \o c : c \in shorter, x \in JoinedParts}

\* One application of the two filters to a raw category.
CatInput(c) ==
    [input |-> c, called |-> FALSE, passes |-> FALSE, label |-> Null,
     definite |-> FALSE]
CatIdle == CatInput(NoText)

\* check_if_restaurant(category) and categorize_restaurant(category).
CategorizeCall ==
    /\ ~flt.called
    /\ flt' = [flt EXCEPT !.called = TRUE,
                          !.passes = check_if_restaurant(flt.input),
                          !.label = categorize_restaurant(flt.input).label,
                          !.definite = categorize_restaurant(flt.input).definite]
    /\ UNCHANGED <<nav, llm, db, dicts, run, drv, rcm, svc, crl, pace>>

(***************************************************************************)
(* Crawl orchestrator: main                                                *)
(***************************************************************************)

\* Number of candidates in the target range.
MaxCandidates == 2

\* Candidate display names (google_restaurants.csv).
CandidateNames == {"N1", "N2"}

\* PlaceRecord(place_id=pid): only the identifier is set.  The fields the
\* orchestrator reads are kept; reviews, jibun_address, zipcd, phone and
\* images are passed through to the store unread.
PlaceRecord(pid) ==
    [place_id |-> pid, name |-> Null, category |-> NoText,
     road_address |-> Null, lat |-> Null, lng |-> Null]

\* Raw categories seen on detail pages: none, "카페", "한식카페", "한식",
\* "음식점".
CrawlCategories ==
    {NoText, <<"ka", "pe">>, <<"han", "sig", "ka", "pe">>, <<"han", "sig">>,
     <<"eum", "sig", "jeom">>}

\* A key that a script result does not have.
Absent == "absent"

\* What execute_script returns for the coordinate scripts: null, or an object
\* whose keys x, y, lng, lat are each missing, null or a number; or the call
\* raises.
ScriptObjects ==
    [kind : {"object"},
     x : {Absent, Null, "127.1"}, y : {Absent, Null, "37.4"},
     lng : {Absent, Null, "127.1"}, lat : {Absent, Null, "37.4"}]
NoObject(kind) ==
    [kind |-> kind, x |-> Absent, y |-> Absent, lng |-> Absent, lat |-> Absent]
ScriptResults == ScriptObjects \cup {NoObject("null"), NoObject("raises")}

\* 'k' in res
HasKey(res, k) == res[k] # Absent

\* res.get(k)
GetKey(res, k) == IF HasKey(res, k) THEN res[k] ELSE Null

\* a or b, on optional values.
Or(a, b) == IF a = Null THEN b ELSE a

\* str(v): str(None) is the four-letter text, which is not None.
str(v) == IF v = Null THEN "'None'" ELSE v

\* A mutant of the coordinate extraction: a missing x leaves lng unset.
extract_coordinatesLatOnly(apollo, initial) ==
    IF /\ apollo.kind = "object"
       /\ HasKey(apollo, "y") \/ HasKey(apollo, "lat")
    THEN [lat |-> str(Or(GetKey(apollo, "y"), GetKey(apollo, "lat"))),
          lng |-> IF HasKey(apollo, "x") \/ HasKey(apollo, "lng")
                  THEN str(Or(GetKey(apollo, "x"), GetKey(apollo, "lng")))
                  ELSE Null]
    ELSE [lat |-> Null, lng |-> Null]

\* _extract_coordinates: the result of the __APOLLO_STATE__ script when it
\* has an x-or-lng key and a y-or-lat key, else the result of the
\* __INITIAL_STATE__ script when it has the keys x and y, else neither
\* coordinate.
extract_coordinates(apollo, initial) ==
    IF /\ apollo.kind = "object"
       /\ HasKey(apollo, "x") \/ HasKey(apollo, "lng")
       /\ HasKey(apollo, "y") \/ HasKey(apollo, "lat")
    THEN [lat |-> str(Or(GetKey(apollo, "y"), GetKey(apollo, "lat"))),
          lng |-> str(Or(GetKey(apollo, "x"), GetKey(apollo, "lng")))]
    ELSE IF /\ initial.kind = "object"
            /\ HasKey(initial, "x") /\ HasKey(initial, "y")
    THEN [lat |-> str(initial.y), lng |-> str(initial.x)]
    ELSE [lat |-> Null, lng |-> Null]

\* The coordinates crawl_one stores in a record: _extract_coordinates over
\* the script results.
Coordinates ==
    {extract_coordinates(apollo, initial) :
        apollo \in ScriptResults, initial \in ScriptResults}

\* The records crawl_one(pid) returns in the model: the complete record with
\* each category that is set; with a definitely mapped category, the records
\* in which one extraction step left its field unset (the address parser may
\* also yield an empty road address); and the identifier-only record.
CrawlRecords(pid) ==
    LET full(c) == [place_id |-> pid, name |-> "A", category |-> c,
                    road_address |-> "R", lat |-> "37.4", lng |-> "127.1"]
        mapped  == full(<<"han", "sig">>)
    IN  {full(c) : c \in CrawlCategories \ {NoText}}
        \cup {[mapped EXCEPT !.name = Null],
              [mapped EXCEPT !.road_address = Null],
              [mapped EXCEPT !.road_address = ""]}
        \cup {[mapped EXCEPT !.lat = xy.lat, !.lng = xy.lng] : xy \in Coordinates}
        \cup {PlaceRecord(pid)}

\* crawl_one(pid) returns a record or raises.
CrawlOutcomes(pid) ==
    [raised : {FALSE}, rec : CrawlRecords(pid)]
    \cup {[raised |-> TRUE, rec |-> PlaceRecord(pid)]}

\* Python truthiness of an optional string: "not v".
Falsy(v) == v = Null \/ v = ""

\* A row of the audit CSV (asdict(rec)): the identifier, and whether every
\* other field is empty.
AuditRow(rec) ==
    [place_id |-> rec.place_id, id_only |-> rec = PlaceRecord(rec.place_id)]

\* db_data = {...}: the dict built for the store.
DbData(rec, category_9) ==
    [id |-> IntOf(rec.place_id), name |-> rec.name,
     road_address |-> IF Falsy(rec.road_address) THEN "" ELSE rec.road_address,
     lat |-> rec.lat, lng |-> rec.lng,
     category_original |-> rec.category, category_mapped |-> category_9,
     created_at |-> NoTime, updated_at |-> NoTime]

\* A mutant of the persistence guard: lat is not tested.
MandatoryMissingNoLat(db_data) ==
    Falsy(db_data.name) \/ Falsy(db_data.road_address)

\* if not db_data["name"] or not db_data["road_address"] or not db_data["lat"]
MandatoryMissing(db_data) ==
    Falsy(db_data.name) \/ Falsy(db_data.road_address) \/ Falsy(db_data.lat)

\* A mutant of the exception handler: no audit row is written.
CandidateFailedSilently(audit, pid) == audit

\* except Exception: w.writerow(asdict(PlaceRecord(place_id=pid)))
CandidateFailed(audit, pid) == Append(audit, AuditRow(PlaceRecord(pid)))

\* What is remembered of the candidate handled last: its index and
\* identifier, the crawled record, the exception caught, how it ended, the
\* stage-2 label (Null: stage 2 not reached), whether llm.classify was
\* invoked and the is_restaurant it returned, whether upsert_restaurant was
\* invoked.
NoCandidate ==
    [idx |-> 0, pid |-> Null, rec |-> PlaceRecord(Null), crawled |-> FALSE,
     exc |-> "none", result |-> "none", mapped |-> Null, called |-> FALSE,
     answer |-> Null, upserted |-> FALSE]

EmptyIdCache == [n \in {} |-> Null]

RunIdle ==
    [pc |-> "start", targets |-> <<>>, i |-> 1, pid |-> Null,
     browser |-> "none", conn |-> "none", exc |-> FALSE,
     id_file |-> <<>>, id_cache |-> EmptyIdCache, existing_ids |-> {},
     searched |-> FALSE, crawls |-> 0, audit |-> <<>>, skipped |-> <<>>,
     upserts |-> <<>>, last |-> NoCandidate]

\* crawler = AntiGravityNaverPlaceCrawler(...): a browser session starts, or
\* the constructor raises.
MainStartCrawler(ok) ==
    /\ run.pc = "start"
    /\ run' = IF ok THEN [run EXCEPT !.pc = "crawler", !.browser = "open"]
              ELSE [run EXCEPT !.pc = "raised"]
    /\ UNCHANGED <<nav, llm, db, dicts, flt, drv, rcm, svc, crl, pace>>

\* db = DBManager(...): _setup_db connects, or logs and re-raises.
MainOpenDb(ok) ==
    /\ run.pc = "crawler"
    /\ run' = IF ok THEN [run EXCEPT !.pc = "db", !.conn = "open"]
              ELSE [run EXCEPT !.pc = "raised"]
    /\ UNCHANGED <<nav, llm, db, dicts, flt, drv, rcm, svc, crl, pace>>

\* The identifier cache file read row by row: a later row overwrites.
RECURSIVE LoadIdCache(_)
LoadIdCache(rows) ==
    IF rows = <<>> THEN EmptyIdCache
    ELSE LET before == LoadIdCache(SubSeq(rows, 1, Len(rows) - 1))
             row    == rows[Len(rows)]
         IN  [n \in DOMAIN before \cup {row.google_name} |->
                 IF n = row.google_name THEN row.naver_id ELSE before[n]]

\* Pre-load: the existing ids (SELECT id FROM restaurants; on an error the set
\* stays empty) and the identifier cache file (on an error the cache stays
\* empty).
MainPreload(idsOk, cacheOk) ==
    /\ run.pc = "db"
    /\ run' = [run EXCEPT
                 !.pc = "preloaded",
                 !.existing_ids = IF idsOk THEN {StrOf(id) : id \in DOMAIN db.rows}
                                  ELSE {},
                 !.id_cache = IF cacheOk THEN LoadIdCache(run.id_file)
                              ELSE EmptyIdCache]
    /\ UNCHANGED <<nav, llm, db, dicts, flt, drv, rcm, svc, crl, pace>>

\* llm = LLMClassifier(...): _load_cache swallows every error.
MainMakeClassifier ==
    /\ run.pc = "preloaded"
    /\ llm' = LLMConstructed(llm.disk)
    /\ run' = [run EXCEPT !.pc = "llm"]
    /\ UNCHANGED <<nav, db, dicts, flt, drv, rcm, svc, crl, pace>>

\* Position after candidate i: the next one, or the finally block.
LoopNext(r) ==
    [r EXCEPT !.i = r.i + 1, !.pid = Null,
              !.pc = IF r.i + 1 > Len(r.targets) THEN "finally" ELSE "loop"]

\* with open(out_csv, "w") ...: the audit file opens and the loop starts, or
\* open() raises before the try block.
MainOpenAudit(ok) ==
    /\ run.pc = "llm"
    /\ run' = IF ok
              THEN [run EXCEPT !.pc = IF Len(run.targets) = 0 THEN "finally"
                                      ELSE "loop"]
              ELSE [run EXCEPT !.pc = "raised"]
    /\ UNCHANGED <<nav, llm, db, dicts, flt, drv, rcm, svc, crl, pace>>

\* A mutant of the existing-ids test: no candidate is taken as stored.
AlreadyStoredNever(pid, existing_ids) == FALSE

\* if pid in existing_ids
AlreadyStored(pid, existing_ids) == pid \in existing_ids

\* A mutant of the cache update: the in-memory cache is left as it was.
CacheAddDropped(id_cache, name, pid) == id_cache

\* id_cache[name] = pid
CacheAdd(id_cache, name, pid) ==
    [n \in DOMAIN id_cache \cup {name} |-> IF n = name THEN pid ELSE id_cache[n]]

\* id_cache.get(name)
CachedId(id_cache, name) ==
    IF name \in DOMAIN id_cache THEN id_cache[name] ELSE Null

\* The head of the loop body for candidate i: the identifier is looked up in
\* the cache or searched (found: the search result), a new mapping is appended
\* to the cache file (fileOk: the append works) and cached; a candidate
\* without identifier or with an identifier in existing_ids is skipped.
MainResolve(found, fileOk) ==
    /\ run.pc = "loop"
    /\ LET name   == run.targets[run.i]
           cached == ~Falsy(CachedId(run.id_cache, name))
           pid    == IF cached THEN CachedId(run.id_cache, name) ELSE found
           seen   == [NoCandidate EXCEPT !.idx = run.i, !.pid = pid,
                                         !.rec = PlaceRecord(pid)]
       IN  /\ cached => found = Null /\ fileOk
           /\ found = Null => fileOk
           /\ run' =
                IF ~cached /\ found # Null /\ ~fileOk
                THEN \* save_to_cache raises outside the inner try
                     [run EXCEPT !.pc = "finally", !.exc = TRUE,
                                 !.searched = TRUE,
                                 !.last = [seen EXCEPT !.result = "aborted"]]
                ELSE LET r1 == IF ~cached /\ found # Null
                               THEN [run EXCEPT
                                       !.searched = TRUE,
                                       !.id_file = Append(@, [google_name |-> name,
                                                              naver_id |-> found]),
                                       !.id_cache = CacheAdd(@, name, found)]
                               ELSE [run EXCEPT !.searched = ~cached]
                     IN  IF pid = Null
                         THEN LoopNext([r1 EXCEPT !.last = [seen EXCEPT !.result = "no_id"]])
                         ELSE IF AlreadyStored(pid, run.existing_ids)
                         THEN LoopNext([r1 EXCEPT !.last = [seen EXCEPT !.result = "exists"]])
                         ELSE [r1 EXCEPT !.pc = "crawl", !.pid = pid]
    /\ UNCHANGED <<nav, llm, db, dicts, flt, drv, rcm, svc, crl, pace>>

\* The response argument of a step in which the classifier is not called.
NoResponse == [kind |-> "timeout", is_restaurant |-> Null, category_9 |-> Null]

\* check_if_restaurant(rec.category) and categorize_restaurant(rec.category)
\* for the categories of the model, computed once.
Stages ==
    [c \in CrawlCategories |->
        [passes |-> check_if_restaurant(c), mapped |-> categorize_restaurant(c)]]

\* A mutant of the stage-3 gate: the classifier is called for every candidate
\* that passes the 1st filter.
AmbiguousOrDefinite(crawl) ==
    ~crawl.raised /\ Stages[crawl.rec.category].passes

\* The classifier is called when the 1st filter passes and the mapping is
\* not definite.
Ambiguous(crawl) ==
    ~crawl.raised /\ Stages[crawl.rec.category].passes
                  /\ ~Stages[crawl.rec.category].mapped.definite

\* The try block for the candidate: detail crawl, audit row, the three
\* filter stages, the persistence guard and the upsert; on an exception the
\* handler writes an identifier-only audit row.  crawl is what crawl_one
\* does, logOk whether log_skipped_category works, resp and save what the
\* classifier meets, outcome what the database does.
MainTry(crawl, logOk, resp, save, outcome) ==
       LET pid      == run.pid
           rec      == crawl.rec
           audit1   == IF crawl.raised THEN run.audit
                       ELSE Append(run.audit, AuditRow(rec))
           stage1   == Stages[rec.category].passes
           stage2   == Stages[rec.category].mapped
           useLLM   == Ambiguous(crawl)
           c        == Classify(llm.cache, llm.disk, pid, resp, save)
           llmRaise == useLLM /\ c.call.path = "raise"
           is_restaurant == IF useLLM THEN c.call.is_restaurant ELSE "True"
           category_9    == IF useLLM THEN c.call.category ELSE stage2.label
           db_data  == DbData(rec, category_9)
           result   == CASE crawl.raised -> "failed"
                         [] ~stage1 -> IF logOk THEN "rejected_1st" ELSE "failed"
                         [] llmRaise -> "failed"
                         [] is_restaurant # "True" ->
                                IF logOk THEN "rejected_3rd" ELSE "failed"
                         [] MandatoryMissing(db_data) -> "dropped"
                         [] outcome = "raises" -> "failed"
                         [] OTHER -> "stored"
           exc      == CASE result # "failed" -> "none"
                         [] crawl.raised -> "crawl"
                         [] ~stage1 -> "filter"
                         [] llmRaise \/ is_restaurant # "True" -> "classify"
                         [] OTHER -> "persist"
           toStore  == result = "stored" \/ exc = "persist"
           reason   == IF result = "rejected_1st" THEN "1st Filter (Non-restaurant)"
                       ELSE "3rd Filter (LLM)"
       IN  /\ (crawl.raised \/ stage1) /\ (~useLLM \/ llmRaise \/ is_restaurant = "True")
                => logOk
           /\ ~toStore => outcome = "ok"
           /\ llm' = IF useLLM THEN [llm EXCEPT !.cache = c.cache, !.disk = c.disk]
                     ELSE llm
           /\ db' = IF toStore THEN DbAfterUpsert(db, db_data, outcome) ELSE db
           /\ run' = LoopNext(
                [run EXCEPT
                   !.crawls = @ + 1,
                   !.audit = IF exc # "none" THEN CandidateFailed(audit1, pid)
                             ELSE audit1,
                   !.skipped = IF result \in {"rejected_1st", "rejected_3rd"}
                               THEN Append(@, [place_id |-> pid, reason |-> reason])
                               ELSE @,
                   !.upserts = IF toStore THEN Append(@, db_data) ELSE @,
                   !.last = [idx |-> run.i, pid |-> pid, rec |-> rec,
                             crawled |-> ~crawl.raised, exc |-> exc,
                             result |-> result,
                             mapped |-> IF ~crawl.raised /\ stage1
                                        THEN stage2.label ELSE Null,
                             called |-> useLLM,
                             answer |-> IF useLLM /\ ~llmRaise
                                        THEN is_restaurant ELSE Null,
                             upserted |-> toStore]])
           /\ UNCHANGED <<nav, dicts, flt, drv, rcm, svc, crl, pace>>

\* What the classifier meets during a run: a restaurant with a listed label,
\* a non-restaurant with a label outside the list, an endpoint error; the
\* cache file is written.
RunResponses ==
    {[kind |-> "ok", is_restaurant |-> "True", category_9 |-> "hansik"],
     [kind |-> "ok", is_restaurant |-> "False", category_9 |-> "cafe"],
     [kind |-> "ok", is_restaurant |-> "True", category_9 |-> "cafe"],
     NoResponse}
RunSaveOutcomes == {"written"}

\* What the database does during a run.
RunUpsertOutcomes == {"ok", "raises", "commit_error"}

\* The body of the loop from the try statement on, for every way its calls
\* can end.
MainProcess ==
    /\ run.pc = "crawl"
    /\ \E crawl \in CrawlOutcomes(run.pid) :
       \E resp \in IF Ambiguous(crawl) THEN RunResponses ELSE {NoResponse} :
       \E save \in IF Ambiguous(crawl) /\ resp.kind = "ok" THEN RunSaveOutcomes
                   ELSE {"written"} :
       \E logOk \in BOOLEAN, outcome \in RunUpsertOutcomes :
            MainTry(crawl, logOk, resp, save, outcome)

\* finally: crawler.close() (errors swallowed) and db.close(); then main
\* returns, or the exception that ended the loop goes on.
MainFinally ==
    /\ run.pc = "finally"
    /\ run' = [run EXCEPT !.pc = IF run.exc THEN "raised" ELSE "returned",
                          !.browser = "closed", !.conn = "closed"]
    /\ UNCHANGED <<nav, llm, db, dicts, flt, drv, rcm, svc, crl, pace>>

(***************************************************************************)
(* Browser session of the crawler: __init__, _restart_driver, close        *)
(***************************************************************************)

\* Number of _restart_driver calls on one crawler.
MaxRestarts == 4

\* How driver.quit() ends: the session is ended; quit raises and the session
\* is gone anyway (e.g. the browser had crashed); quit raises and the browser
\* keeps running (e.g. the quit command timed out).
QuitOutcomes == {"ended", "raised_gone", "raised_running"}

\* The crawler's browser sessions: the session self.driver refers to (0:
\* none), the sessions whose browser is running, the number of sessions
\* started and of restarts made.
NoDriver == [pc |-> "new", driver |-> 0, live |-> {}, started |-> 0, restarts |-> 0]

\* What driver.quit() leaves of the live sessions.
AfterQuit(live, driver, quit) ==
    IF quit = "raised_running" THEN live ELSE live \ {driver}

\* __init__: self.driver = self._new_driver(...); the constructor raises when
\* no browser can be started.
DriverInit(ok) ==
    /\ drv.pc = "new"
    /\ drv' = IF ok
              THEN [drv EXCEPT !.pc = "ready", !.driver = 1, !.live = {1},
                               !.started = 1]
              ELSE [drv EXCEPT !.pc = "closed"]
    /\ UNCHANGED <<nav, llm, db, dicts, run, flt, rcm, svc, crl, pace>>

\* _restart_driver, first half: try: self.driver.quit() except Exception:
\* pass, then the pause.
RestartQuit(quit) ==
    /\ drv.pc = "ready"
    /\ drv.restarts < MaxRestarts
    /\ drv' = [drv EXCEPT !.pc = "restarting",
                          !.restarts = @ + 1,
                          !.live = AfterQuit(@, drv.driver, quit)]
    /\ UNCHANGED <<nav, llm, db, dicts, run, flt, rcm, svc, crl, pace>>

\* _restart_driver, second half: self.driver = self._new_driver(...); when
\* that raises self.driver keeps referring to the old session.
RestartNew(ok) ==
    /\ drv.pc = "restarting"
    /\ drv' = IF ok
              THEN [drv EXCEPT !.pc = "ready",
                               !.driver = drv.started + 1,
                               !.started = @ + 1,
                               !.live = @ \cup {drv.started + 1}]
              ELSE [drv EXCEPT !.pc = "ready"]
    /\ UNCHANGED <<nav, llm, db, dicts, run, flt, rcm, svc, crl, pace>>

\* close(): try: self.driver.quit() except Exception: pass
DriverClose(quit) ==
    /\ drv.pc = "ready"
    /\ drv' = [drv EXCEPT !.pc = "closed",
                          !.live = AfterQuit(@, drv.driver, quit)]
    /\ UNCHANGED <<nav, llm, db, dicts, run, flt, rcm, svc, crl, pace>>

(***************************************************************************)
(* Recommendation service: calculate_recommendations and the response      *)
(***************************************************************************)

\* Largest number of rows the storage query returns.
MaxRows == 4

\* Largest swipe.card_limit of a request; card_limit is an unconstrained int
\* in the request schema, so negative values are accepted too.
MaxCardLimit == 2
CardLimits == -1..MaxCardLimit

\* distance_m as the query computes it, in tenths of a metre.
DistanceTenths == {1004, 1009, 2500}

\* The score of a row before max(0, .) and rounding, in hundredths: the
\* review, preference and distance terms summed.
RawScores == {-30, 50, 120}

\* A row of the query; the id is given by the row's place in the result.
StorageRow(id, distance, score) ==
    [id |-> id, name |-> "A", category_mapped |-> "hansik",
     distance |-> distance, score |-> score]

\* Rows as cur.fetchall() returns them: ORDER BY distance_m, ids distinct.
StorageResults ==
    UNION {{[k \in 1..n |-> StorageRow(k, f[k].distance, f[k].score)] :
                f \in {g \in [1..n -> [distance : DistanceTenths, score : RawScores]] :
                          \A k \in 1..(n - 1) : g[k].distance <= g[k + 1].distance}}
           : n \in 0..MaxRows}

Max(a, b) == IF a >= b THEN a ELSE b

\* scored_list.append({...}): int(distance_m) and round(max(0, score), 2).
ScoredItem(row) ==
    [id |-> row.id, name |-> row.name, category_mapped |-> row.category_mapped,
     distance_m |-> row.distance \div 10, final_score |-> Max(0, row.score)]

\* The loop over rows: one item per row, in row order.
ScoredList(rows) == [k \in 1..Len(rows) |-> ScoredItem(rows[k])]

\* One step of a stable descending sort: x goes after every item whose score
\* is not smaller.
InsertByScore(sorted, x) ==
    LET before == {k \in 1..Len(sorted) : sorted[k].final_score >= x.final_score}
        n      == Cardinality(before)
    IN  SubSeq(sorted, 1, n) \o <<x>> \o SubSeq(sorted, n + 1, Len(sorted))

\* scored_list.sort(key=final_score, reverse=True): stable, descending.
RECURSIVE SortByScore(_)
SortByScore(list) ==
    IF list = <<>> THEN <<>>
    ELSE InsertByScore(SortByScore(SubSeq(list, 1, Len(list) - 1)), list[Len(list)])

\* list[:limit] in Python: a negative limit counts from the end.
Slice(list, limit) ==
    SubSeq(list, 1, IF limit < 0 THEN Max(0, Len(list) + limit)
                    ELSE Min(Len(list), limit))

\* calculate_recommendations(conn, req) for the rows the query returned.
calculate_recommendations(rows, card_limit) ==
    Slice(SortByScore(ScoredList(rows)), card_limit * 2)

\* The fields RecommendedRestaurant declares.
ItemFields == {"id", "name", "category_mapped", "distance_m", "final_score"}

\* An element of response_data["restaurants"]: res.get("rank") or (i + 1)
\* (the scored items have no "rank" key) and the five copied fields.
ResponseItem(res, i) ==
    [rank |-> i + 1, id |-> res.id, name |-> res.name,
     category_mapped |-> res.category_mapped, distance_m |-> res.distance_m,
     final_score |-> res.final_score]

\* response_data as the handler builds it (i is 0-based in enumerate).
ResponseData(results) ==
    [top_n |-> Len(results),
     restaurants |-> [k \in 1..Len(results) |-> ResponseItem(results[k], k - 1)]]

\* Serialisation through response_model: an item keeps the declared fields
\* of RecommendedRestaurant, other keys are dropped.
SerializeItem(item) == [f \in ItemFields |-> item[f]]
Serialize(data) ==
    [top_n |-> data.top_n,
     restaurants |-> [k \in 1..Len(data.restaurants) |->
                         SerializeItem(data.restaurants[k])]]

NoResponseBody == [top_n |-> 0, restaurants |-> <<>>]

\* One request: the rows of the query, card_limit, the list returned by
\* calculate_recommendations and the response body sent.
RecRequest(rows, card_limit) ==
    [pc |-> "request", rows |-> rows, card_limit |-> card_limit,
     results |-> <<>>, response |-> NoResponseBody]

\* results = calculate_recommendations(conn, request)
RecommendCall ==
    /\ rcm.pc = "request"
    /\ rcm' = [rcm EXCEPT !.pc = "scored",
                          !.results = calculate_recommendations(rcm.rows,
                                                                rcm.card_limit)]
    /\ UNCHANGED <<nav, llm, db, dicts, run, flt, drv, svc, crl, pace>>

\* return response_data, serialised as RecommendResponse.
RecommendRespond ==
    /\ rcm.pc = "scored"
    /\ rcm' = [rcm EXCEPT !.pc = "responded",
                          !.response = Serialize(ResponseData(rcm.results))]
    /\ UNCHANGED <<nav, llm, db, dicts, run, flt, drv, svc, crl, pace>>

(***************************************************************************)
(* Recommendation service: the connection of a request                     *)
(***************************************************************************)

\* Number of requests in flight.
MaxRequests == 3
Requests == 1..MaxRequests

\* A request before its handler starts: no connection, no scoring, no
\* response status.
NewRequest == [pc |-> "start", conn |-> 0, scored |-> FALSE, status |-> 0]

\* The service with no connection made yet.
SvcIdle == [reqs |-> [r \in Requests |-> NewRequest], conns |-> <<>>]

\* A mutant of the handler's conn variable: one variable shared by all
\* requests, holding the connection acquired last.
ConnShared(s, r) == Len(s.conns)

\* conn, the local variable of the handler of request r.
ConnOf(s, r) == s.reqs[r].conn

\* conn = get_connection(): a new connection, or psycopg2.connect raises and
\* the handler raises HTTPException(500).
ServiceAcquire(r, ok) ==
    /\ svc.reqs[r].pc = "start"
    /\ svc' = IF ok
              THEN [svc EXCEPT
                      !.conns = Append(@, [owner |-> r, open |-> TRUE,
                                           closes |-> 0, closed_by |-> 0]),
                      !.reqs[r].conn = Len(svc.conns) + 1,
                      !.reqs[r].pc = "connected"]
              ELSE [svc EXCEPT !.reqs[r].pc = "done", !.reqs[r].status = 500]
    /\ UNCHANGED <<nav, llm, db, dicts, run, flt, drv, rcm, crl, pace>>

\* The try block: calculate_recommendations returns and the response is
\* built, or an exception is turned into HTTPException(500).
ServiceScore(r, ok) ==
    /\ svc.reqs[r].pc = "connected"
    /\ svc' = [svc EXCEPT !.reqs[r].pc = "finally",
                          !.reqs[r].scored = TRUE,
                          !.reqs[r].status = IF ok THEN 200 ELSE 500]
    /\ UNCHANGED <<nav, llm, db, dicts, run, flt, drv, rcm, crl, pace>>

\* finally: conn.close(); then the response (or the error) leaves the
\* handler.
ServiceClose(r) ==
    /\ svc.reqs[r].pc = "finally"
    /\ LET c == ConnOf(svc, r)
       IN  svc' = [svc EXCEPT !.conns[c].open = FALSE,
                              !.conns[c].closes = @ + 1,
                              !.conns[c].closed_by = r,
                              !.reqs[r].pc = "done"]
    /\ UNCHANGED <<nav, llm, db, dicts, run, flt, drv, rcm, crl, pace>>

(***************************************************************************)
(* Detail crawl: AntiGravityNaverPlaceCrawler.crawl_one                    *)
(***************************************************************************)

\* for attempt in range(3)
FrameAttempts == 3

\* What the entry frame shows when it is looked at: a positive element (h1,
\* tab button or tel link), a soft-block phrase in the page source, and
\* whether the page source can be read.
FramePages == [positive : BOOLEAN, block : BOOLEAN, readable : BOOLEAN]

\* The frame before it is entered.
NoFrame == [positive |-> FALSE, block |-> FALSE, readable |-> FALSE]

\* is_entry_page_loaded: any positive element is found.
is_entry_page_loaded(page) == page.positive

\* is_real_temp_block: the page source is read, there is no positive element
\* and a soft-block phrase is in the source.
is_real_temp_block(page) ==
    IF ~page.readable THEN FALSE
    ELSE IF is_entry_page_loaded(page) THEN FALSE
    ELSE page.block

\* switch_to_entry_iframe: True, False on TimeoutException, or another
\* exception of the browser, which it does not catch.
EntryOutcomes == {"found", "timeout", "raises"}

\* A mutant of the open step: a failed open is not noticed.
OpenFailedIgnored(ok) == FALSE

\* if not self._safe_get(url, tries=5)
OpenFailed(ok) == ~ok

\* A mutant of the frame-entry loop: one attempt too many.
FrameLoopOverLate(attempt) == attempt > FrameAttempts

\* for attempt in range(3): the loop is over after 3 attempts.
FrameLoopOver(attempt) == attempt >= FrameAttempts

\* A crawl_one call: position, the identifier, the attempts of the
\* frame-entry loop that ended in continue, the frame entries tried in the
\* loop and after the restart, the _safe_get calls made (tries passed and
\* result), the session restarts, what the last evaluation of the entry
\* frame found, the frame as last seen and whether the browser is in it,
\* whether the extraction steps ran, how the call ended and the record.
CrawlIdle ==
    [pc |-> "idle", pid |-> Null, attempt |-> 0, entries |-> 0,
     reentries |-> 0, opens |-> <<>>, restarts |-> 0, lastEval |-> "none",
     page |-> NoFrame, framed |-> FALSE, extracted |-> FALSE,
     ret |-> "none", rec |-> PlaceRecord(Null)]

\* crawl_one(place_id) up to the open step: the record with the identifier
\* only, and _safe_get(url, tries=5); on failure the record is returned.
CrawlOpen(pid, ok) ==
    /\ crl.pc \in {"idle", "done"}
    /\ crl' = [CrawlIdle EXCEPT
                 !.pid = pid, !.rec = PlaceRecord(pid),
                 !.opens = <<[tries |-> 5, ok |-> ok]>>,
                 !.pc = IF OpenFailed(ok) THEN "done" ELSE "frame",
                 !.ret = IF OpenFailed(ok) THEN "id_only" ELSE "none"]
    /\ UNCHANGED <<nav, llm, db, dicts, run, flt, drv, rcm, svc, pace>>

\* The frame-entry loop after an attempt that ended in continue.
NextAttempt(c, reopen) ==
    [c EXCEPT !.attempt = @ + 1, !.framed = FALSE,
              !.opens = Append(@, [tries |-> 1, ok |-> reopen]),
              !.pc = IF FrameLoopOver(c.attempt + 1) THEN "restart" ELSE "frame"]

\* One attempt of the frame-entry loop: switch_to_entry_iframe (entry); the
\* frame as is_entry_page_loaded sees it (first) and as is_real_temp_block
\* sees it (second); the result of the re-open _safe_get(url, tries=1)
\* (reopen), which is not looked at.
CrawlFrameAttempt(entry, first, second, reopen) ==
    /\ crl.pc = "frame"
    /\ LET c == [crl EXCEPT !.entries = @ + 1]
       IN  crl' =
             IF entry = "raises"
             THEN [c EXCEPT !.pc = "done", !.ret = "raised"]
             ELSE IF entry = "timeout"
             THEN NextAttempt(c, reopen)
             ELSE IF is_entry_page_loaded(first)
             THEN [c EXCEPT !.pc = "extract", !.framed = TRUE, !.page = first,
                            !.lastEval = "loaded"]
             ELSE IF is_real_temp_block(second)
             THEN NextAttempt([c EXCEPT !.page = second, !.lastEval = "block"],
                              reopen)
             ELSE [c EXCEPT !.pc = "extract", !.framed = TRUE, !.page = second,
                            !.lastEval = "ambiguous"]
    /\ UNCHANGED <<nav, llm, db, dicts, run, flt, drv, rcm, svc, pace>>

\* if not ok: _restart_driver() (newOk: the new browser starts), then
\* _safe_get(url, tries=2) (ok) and, if it succeeded, switch_to_entry_iframe
\* (entry); the frame then shown (page) is not evaluated.
CrawlRestart(newOk, ok, entry, page) ==
    /\ crl.pc = "restart"
    /\ LET c == [crl EXCEPT !.restarts = @ + 1]
           o == [c EXCEPT !.opens = Append(@, [tries |-> 2, ok |-> ok])]
           e == [o EXCEPT !.reentries = @ + 1]
       IN  crl' =
             IF ~newOk THEN [c EXCEPT !.pc = "done", !.ret = "raised"]
             ELSE IF ~ok THEN [o EXCEPT !.pc = "done", !.ret = "id_only"]
             ELSE IF entry = "raises" THEN [e EXCEPT !.pc = "done", !.ret = "raised"]
             ELSE IF entry = "timeout" THEN [e EXCEPT !.pc = "done", !.ret = "id_only"]
             ELSE [e EXCEPT !.pc = "extract", !.framed = TRUE, !.page = page]
    /\ UNCHANGED <<nav, llm, db, dicts, run, flt, drv, rcm, svc, pace>>

\* The extraction steps 3) to 7): each reads its fields or leaves them unset
\* when it raises; the coordinates come from _extract_coordinates.
CrawlExtract(name, category, road_address, apollo, initial) ==
    /\ crl.pc = "extract"
    /\ LET xy == extract_coordinates(apollo, initial)
       IN  crl' = [crl EXCEPT
                     !.pc = "done", !.extracted = TRUE, !.ret = "record",
                     !.rec = [place_id |-> crl.pid, name |-> name,
                              category |-> category,
                              road_address |-> road_address,
                              lat |-> xy.lat, lng |-> xy.lng]]
    /\ UNCHANGED <<nav, llm, db, dicts, run, flt, drv, rcm, svc, pace>>

(***************************************************************************)
(* Orchestrator: rate limiting of the candidate loop                       *)
(***************************************************************************)

\* Largest number of candidates in the range of a run.
MaxRange == 102

\* The cooldown period: (i - start_idx) % 50 == 0.
CooldownEvery == 50

\* --start values: the default 1, a value below 1 and a later start.
StartArgs == {0, 1, 3}

\* start_idx = max(1, args.start)
StartIdx(start) == Max(1, start)

\* A mutant of the cooldown test: the absolute index is tested.
RateLimitAbsolute(i, start_idx) ==
    (IF i > start_idx THEN <<2>> ELSE <<>>)
    \o (IF i > 0 /\ i % CooldownEvery = 0 THEN <<60>> ELSE <<>>)

\* The sleeps at the top of the loop body for index i, in seconds:
\* time.sleep(2) if i > start_idx, then time.sleep(60) if the offset from
\* start_idx is a positive multiple of 50.
RateLimit(i, start_idx) ==
    (IF i > start_idx THEN <<2>> ELSE <<>>)
    \o (IF (i - start_idx) > 0 /\ (i - start_idx) % CooldownEvery = 0
        THEN <<60>> ELSE <<>>)

\* The loop over target_list: start_idx, the number of candidates, the index
\* the loop is at, and for the candidate handled last its index, the sleeps
\* made before it and whether it was skipped by a continue.
PaceIdle ==
    [start_idx |-> 1, count |-> 0, i |-> 1, idx |-> 0, before |-> <<>>,
     skipped |-> FALSE]

\* for i, res in enumerate(target_list, start=start_idx): one pass of the
\* body; the rate limiting comes first, whatever happens to the candidate.
PaceCandidate(skipped) ==
    /\ pace.i < pace.start_idx + pace.count
    /\ pace' = [pace EXCEPT !.i = @ + 1, !.idx = pace.i,
                            !.before = RateLimit(pace.i, pace.start_idx),
                            !.skipped = skipped]
    /\ UNCHANGED <<nav, llm, db, dicts, run, flt, drv, rcm, svc, crl>>

(***************************************************************************)
(* Specifications                                                          *)
(***************************************************************************)

NoDicts == [ref \in DictRefs |-> NoDict]

\* The components at rest.
NavRest == nav = NavIdle
LlmRest == llm = LLMConstructed(AbsentFile)
DbRest == db = DbOpened(EmptyTable) /\ dicts = NoDicts
RunRest == run = RunIdle
CatRest == flt = CatIdle
DrvRest == drv = NoDriver
RecRest == rcm = Null
SvcRest == svc = SvcIdle
CrlRest == crl = CrawlIdle
PaceRest == pace = PaceIdle
ServiceRest == DrvRest /\ RecRest /\ SvcRest /\ CrlRest /\ PaceRest

\* Resilient navigation alone.
InitSafeGet == NavRest /\ LlmRest /\ DbRest /\ RunRest /\ CatRest /\ ServiceRest
NextSafeGet ==
    \/ \E tries \in 0..MaxTries : SafeGetCall(tries)
    \/ \E getRaises \in BOOLEAN :
       \E shown \in IF getRaises THEN {nav.page} ELSE PageSources :
       \E jitter \in IF page_has_temp_error(shown) THEN JitterTenths ELSE {6} :
       \E home \in IF page_has_temp_error(shown) THEN PageSources ELSE {shown} :
            SafeGetAttempt(getRaises, shown, jitter, home)
SpecSafeGet == InitSafeGet /\ [][NextSafeGet]_vars

\* The classifier alone.
InitClassify ==
    /\ \E disk \in InitialDisks : llm = LLMConstructed(disk)
    /\ NavRest /\ DbRest /\ RunRest /\ CatRest /\ ServiceRest
NextClassify ==
    \/ \E p \in PlaceIds, resp \in Responses, save \in SaveOutcomes :
            ClassifyCall(p, resp, save)
    \/ LLMConstruct
SpecClassify == InitClassify /\ [][NextClassify]_vars

\* The store alone.
InitUpsert == NavRest /\ LlmRest /\ DbRest /\ RunRest /\ CatRest /\ ServiceRest
NextUpsert ==
    \/ \E ref \in DictRefs, id \in Ids, name \in Names : MakeDict(ref, id, name)
    \/ \E ref \in DictRefs, name \in Names : SetName(ref, name)
    \/ \E ref \in DictRefs, outcome \in UpsertOutcomes : UpsertCall(ref, outcome)
SpecUpsert == InitUpsert /\ [][NextUpsert]_vars

\* Candidate lists of the target range.
TargetLists == UNION {[1..k -> CandidateNames] : k \in 0..MaxCandidates}

\* The restaurants table at the start of a run: a row for id 1 from an
\* earlier run (the pre-load may fail to read it).
InitialTable == [id \in {1} |-> [name |-> "A", created_at |-> 1, updated_at |-> 1]]

\* The identifier cache file at the start of a run: one mapping from an
\* earlier run and one row whose naver_id column is empty (the pre-load may
\* fail to read the file).
InitialIdFile ==
    <<[google_name |-> "N1", naver_id |-> "1"],
      [google_name |-> "N2", naver_id |-> ""]>>

\* The category cache file at the start of a run.
InitialRunDisks ==
    {AbsentFile,
     JsonFile([p \in PlaceIds |->
                 IF p = "1" THEN NotADict
                 ELSE [dict |-> TRUE, is_restaurant |-> "True",
                       category_9 |-> "cafe"]])}

\* The orchestrator, with the classifier and the store it calls.
InitMain ==
    /\ NavRest /\ CatRest /\ ServiceRest
    /\ dicts = NoDicts
    /\ \E disk \in InitialRunDisks :
            llm = [LLMConstructed(AbsentFile) EXCEPT !.disk = disk]
    /\ db = [DbOpened(InitialTable) EXCEPT !.now = 2]
    /\ \E targets \in TargetLists :
            run = [RunIdle EXCEPT !.targets = targets, !.id_file = InitialIdFile]
NextMain ==
    \/ \E ok \in BOOLEAN : MainStartCrawler(ok)
    \/ \E ok \in BOOLEAN : MainOpenDb(ok)
    \/ \E idsOk \in BOOLEAN, cacheOk \in BOOLEAN : MainPreload(idsOk, cacheOk)
    \/ MainMakeClassifier
    \/ \E ok \in BOOLEAN : MainOpenAudit(ok)
    \/ \E found \in PlaceIds \cup {Null}, fileOk \in BOOLEAN : MainResolve(found, fileOk)
    \/ MainProcess
    \/ MainFinally
SpecMain == InitMain /\ [][NextMain]_vars

\* The two category filters alone.
InitCategorize ==
    /\ \E c \in RawCategories(MaxParts) : flt = CatInput(c)
    /\ NavRest /\ LlmRest /\ DbRest /\ RunRest /\ ServiceRest
NextCategorize == CategorizeCall
SpecCategorize == InitCategorize /\ [][NextCategorize]_vars

\* The recommendation computation and response of one request.
InitRecommend ==
    /\ \E rows \in StorageResults, card_limit \in CardLimits :
            rcm = RecRequest(rows, card_limit)
    /\ NavRest /\ LlmRest /\ DbRest /\ RunRest /\ CatRest /\ DrvRest /\ SvcRest
    /\ CrlRest /\ PaceRest
NextRecommend == RecommendCall \/ RecommendRespond
SpecRecommend == InitRecommend /\ [][NextRecommend]_vars

\* The request handler and its connections, several requests in flight.
InitService ==
    NavRest /\ LlmRest /\ DbRest /\ RunRest /\ CatRest /\ DrvRest /\ RecRest /\ SvcRest
    /\ CrlRest /\ PaceRest
NextService ==
    \/ \E r \in Requests, ok \in BOOLEAN : ServiceAcquire(r, ok)
    \/ \E r \in Requests, ok \in BOOLEAN : ServiceScore(r, ok)
    \/ \E r \in Requests : ServiceClose(r)
SpecService == InitService /\ [][NextService]_vars

\* The browser sessions of one crawler.
InitDriver ==
    NavRest /\ LlmRest /\ DbRest /\ RunRest /\ CatRest /\ DrvRest /\ RecRest /\ SvcRest
    /\ CrlRest /\ PaceRest
NextDriver ==
    \/ \E ok \in BOOLEAN : DriverInit(ok)
    \/ \E quit \in QuitOutcomes : RestartQuit(quit)
    \/ \E ok \in BOOLEAN : RestartNew(ok)
    \/ \E quit \in QuitOutcomes : DriverClose(quit)
SpecDriver == InitDriver /\ [][NextDriver]_vars

\* The detail crawl alone.
DefaultPage == [positive |-> FALSE, block |-> FALSE, readable |-> TRUE]
InitCrawl ==
    NavRest /\ LlmRest /\ DbRest /\ RunRest /\ CatRest /\ ServiceRest
NextCrawl ==
    \/ \E pid \in PlaceIds, ok \in BOOLEAN : CrawlOpen(pid, ok)
    \/ \E entry \in EntryOutcomes :
       \E first \in IF entry = "found" THEN FramePages ELSE {DefaultPage} :
       \E second \in IF entry = "found" /\ ~is_entry_page_loaded(first)
                     THEN FramePages ELSE {first} :
       \E reopen \in IF entry = "timeout" \/ (entry = "found" /\ is_real_temp_block(second)
                                                /\ ~is_entry_page_loaded(first))
                     THEN BOOLEAN ELSE {TRUE} :
            CrawlFrameAttempt(entry, first, second, reopen)
    \/ \E newOk \in BOOLEAN :
       \E ok \in IF newOk THEN BOOLEAN ELSE {FALSE} :
       \E entry \in IF ok THEN EntryOutcomes ELSE {"timeout"} :
       \E page \in IF ok /\ entry = "found" THEN FramePages ELSE {DefaultPage} :
            CrawlRestart(newOk, ok, entry, page)
    \/ \E name \in {Null, "A"}, category \in {NoText, <<"han", "sig">>},
          road_address \in {Null, "R"} :
       \E apollo \in {NoObject("null"), NoObject("raises"),
                      [NoObject("object") EXCEPT !.x = "127.1", !.y = "37.4"],
                      [NoObject("object") EXCEPT !.x = Null, !.y = "37.4"]} :
       \E initial \in {NoObject("null"),
                       [NoObject("object") EXCEPT !.x = "127.1", !.y = "37.4"]} :
            CrawlExtract(name, category, road_address, apollo, initial)
SpecCrawl == InitCrawl /\ [][NextCrawl]_vars

\* The candidate loop's rate limiting alone, over ranges of every length.
InitPace ==
    /\ NavRest /\ LlmRest /\ DbRest /\ RunRest /\ CatRest
    /\ DrvRest /\ RecRest /\ SvcRest /\ CrlRest
    /\ \E start \in StartArgs, count \in 0..MaxRange :
            pace = [PaceIdle EXCEPT !.start_idx = StartIdx(start),
                                    !.i = StartIdx(start), !.count = count]
NextPace == \E skipped \in BOOLEAN : PaceCandidate(skipped)
SpecPace == InitPace /\ [][NextPace]_vars

Spec == SpecMain

(***************************************************************************)
(* Properties                                                              *)
(***************************************************************************)

\* C1: when every attempt of _safe_get(url, N) sees the soft-block signature,
\* the call navigates to the target URL exactly N times and returns False; it
\* never returns True and never makes an (N+1)-th attempt.
C1_ExhaustedAttemptsFail ==
    nav.blocked = nav.gets =>
        /\ nav.gets <= nav.tries
        /\ nav.ret # "True"
        /\ nav.pc = "done" => nav.ret = "False" /\ nav.gets = nav.tries

\* A call with 4 attempts, all soft-blocked, has returned False.
C1_Witness ==
    nav.pc = "done" /\ nav.tries = 4 /\ nav.blocked = 4 /\ nav.ret = "False"

\* The inference calls issued by the last two classify calls for p.
InferenceCalls(p) ==
    (IF llm.prev[p].inferred THEN 1 ELSE 0) + (IF llm.last[p].inferred THEN 1 ELSE 0)

SamePair(p) ==
    /\ llm.last[p].is_restaurant = llm.prev[p].is_restaurant
    /\ llm.last[p].category = llm.prev[p].category

DiskIds(disk) == DOMAIN LoadCache(disk)

\* C3: a classify call that returns through the failure path returns
\* (False, 기타) and has created no cache entry for the place id, neither in
\* memory nor in the file.
C3_FailsClosed ==
    \A p \in PlaceIds :
        llm.last[p].path = "fail" =>
            /\ llm.last[p].is_restaurant = "False" /\ llm.last[p].category = Gita
            /\ p \notin DOMAIN llm.cache
            /\ p \notin DiskIds(llm.disk)

\* C4: on every path on which classify returns, the category is one of the
\* nine labels, and a label outside the nine (found in the cache or in the
\* response) is returned as 기타.
C4_CategoryInNine ==
    \A p \in PlaceIds : \A call \in {llm.last[p], llm.prev[p]} :
        call.path \in {"hit", "success", "fail"} =>
            /\ call.category \in allowed_categories
            /\ call.found \notin allowed_categories => call.category = Gita

\* A cache hit on an entry whose stored label is outside the nine.
C4_Witness ==
    \E p \in PlaceIds :
        /\ llm.last[p].path = "hit" /\ llm.last[p].found = "cafe"
        /\ llm.last[p].category = Gita

\* A record lacks a mandatory field.
LacksMandatory(rec) ==
    \/ rec.name = Null \/ rec.name = ""
    \/ rec.road_address = Null \/ rec.road_address = ""
    \/ rec.lat = Null \/ rec.lat = ""

\* C5: a crawled record whose name, road_address or lat is absent or empty is
\* written to the audit CSV, and upsert_restaurant is never invoked for it.
C5_MandatoryFieldGuard ==
    /\ \A k \in 1..Len(run.upserts) :
            /\ run.upserts[k].name \notin {Null, ""}
            /\ run.upserts[k].road_address \notin {Null, ""}
            /\ run.upserts[k].lat \notin {Null, ""}
    /\ run.last.crawled /\ LacksMandatory(run.last.rec) =>
            /\ ~run.last.upserted
            /\ \E k \in 1..Len(run.audit) :
                    /\ run.audit[k].place_id = run.last.pid
                    /\ run.audit[k].id_only = (run.last.rec = PlaceRecord(run.last.pid))

\* A fully extracted record missing only lat was audited and dropped.
C5_Witness ==
    /\ run.last.result = "dropped"
    /\ run.last.rec.name = "A" /\ run.last.rec.road_address = "R"
    /\ run.last.rec.lat = Null
    /\ Len(run.audit) > 0 /\ ~run.audit[Len(run.audit)].id_only

\* C6: upserting an id that has a row, with a changed name, leaves one row
\* for the id with the new name, the created_at of the first upsert and a
\* later updated_at (also when the same dict is passed again).
C6_IdempotentUpsert ==
    [][(/\ db'.calls = db.calls + 1
        /\ db'.last.outcome = "ok"
        /\ db'.last.id \in DOMAIN db.rows
        /\ db'.last.name # db.rows[db'.last.id].name)
       => (/\ DOMAIN db'.rows = DOMAIN db.rows
           /\ db'.rows[db'.last.id].name = db'.last.name
           /\ db'.rows[db'.last.id].created_at = db.rows[db'.last.id].created_at
           /\ db'.rows[db'.last.id].updated_at > db.rows[db'.last.id].updated_at)]_vars

C8_ShutdownCloses ==
    run.pc \in {"returned", "raised"} /\ run.browser # "none" =>
        run.browser = "closed" /\ run.conn # "open"

\* C9: an exception in the detail crawl, the filters, the classification or
\* the persistence of a candidate is caught: an identifier-only row for the
\* candidate becomes the last row of the audit CSV, no exception leaves the
\* loop, and the loop moves to the next candidate (or, after the last one, to
\* its end).
C9_FailureContained ==
    [][(run.pc = "crawl" /\ run'.crawls = run.crawls + 1 /\ run'.last.exc # "none")
       => (/\ Len(run'.audit) > Len(run.audit)
           /\ run'.audit[Len(run'.audit)] = [place_id |-> run.pid, id_only |-> TRUE]
           /\ ~run'.exc
           /\ run'.i = run.i + 1
           /\ run'.pc = (IF run'.i <= Len(run.targets) THEN "loop" ELSE "finally"))]_vars

\* The first candidate failed in the store and the second is being processed.
C9_Witness ==
    /\ run.last.exc = "persist" /\ run.last.idx = 1
    /\ run.pc = "loop" /\ run.i = 2

\* C10: the audit CSV holds exactly one row per candidate for which a detail
\* crawl was attempted.
C10_OneAuditRowPerAttempt == Len(run.audit) = run.crawls

\* The step of the loop body that handles one candidate from the try
\* statement on.
CandidateStep == run.pc = "crawl" /\ run'.crawls = run.crawls + 1

\* The raw categories that pass the 1st filter and have no definite mapping.
AmbiguousCategories ==
    {c \in CrawlCategories :
        check_if_restaurant(c) /\ ~categorize_restaurant(c).definite}

\* C11: llm.classify is invoked for a candidate only when its record was
\* crawled, passed the 1st filter and got an ambiguous stage-2 mapping; a
\* candidate for which it returns is_restaurant = false is never upserted and
\* is logged with reason "3rd Filter (LLM)" (unless writing that log raises,
\* which ends the candidate in the exception handler).
C11_ClassifierOnlyWhenAmbiguous ==
    [][CandidateStep =>
        /\ run'.last.called =>
                run'.last.crawled /\ run'.last.rec.category \in AmbiguousCategories
        /\ ~run'.last.called => llm' = llm
        /\ run'.last.called /\ run'.last.answer = "False" =>
                /\ ~run'.last.upserted
                /\ db' = db /\ run'.upserts = run.upserts
                /\ \/ run'.skipped = Append(run.skipped,
                                            [place_id |-> run.pid,
                                             reason |-> "3rd Filter (LLM)"])
                   \/ run'.last.exc = "classify" /\ run'.skipped = run.skipped]_vars

\* The classifier rejected a candidate with raw category "음식점", and the
\* rejection is the last line of the skipped-category log.
C11_Witness ==
    /\ run.last.called /\ run.last.answer = "False"
    /\ run.last.rec.category = <<"eum", "sig", "jeom">>
    /\ run.last.result = "rejected_3rd"
    /\ Len(run.skipped) > 0
    /\ run.skipped[Len(run.skipped)] =
            [place_id |-> run.last.pid, reason |-> "3rd Filter (LLM)"]

\* The raw categories that contain a 1st filter keyword.
BlacklistedCategories ==
    {c \in CrawlCategories : \E x \in non_res_kws : Contains(c, x)}

\* C12: a crawled candidate whose raw category contains a 1st filter keyword
\* (with or without a restaurant keyword next to it) gets one line with
\* reason "1st Filter (Non-restaurant)" in the skipped-category log (unless
\* writing it raises), stage 2, the classifier and the store are not reached,
\* and the loop goes on with the next candidate; a candidate without raw
\* category is not rejected by the 1st filter and reaches stage 2.
C12_FirstFilter ==
    [][CandidateStep /\ run'.last.crawled =>
        /\ run'.last.rec.category \in BlacklistedCategories =>
                /\ run'.last.mapped = Null /\ ~run'.last.called
                /\ ~run'.last.upserted
                /\ llm' = llm /\ db' = db /\ run'.upserts = run.upserts
                /\ \/ /\ run'.last.result = "rejected_1st"
                      /\ run'.skipped = Append(run.skipped,
                                               [place_id |-> run.pid,
                                                reason |-> "1st Filter (Non-restaurant)"])
                   \/ run'.last.exc = "filter" /\ run'.skipped = run.skipped
                /\ ~run'.exc /\ run'.i = run.i + 1
                /\ run'.pc = (IF run'.i <= Len(run.targets) THEN "loop" ELSE "finally")
        /\ run'.last.rec.category = NoText =>
                /\ run'.last.result # "rejected_1st" /\ run'.last.exc # "filter"
                /\ run'.last.mapped # Null]_vars

\* A candidate with raw category "한식카페" was rejected by the 1st filter
\* and the loop is at the next candidate.
C12_Witness ==
    /\ run.last.rec.category = <<"han", "sig", "ka", "pe">>
    /\ run.last.result = "rejected_1st"
    /\ run.skipped = <<[place_id |-> run.last.pid,
                        reason |-> "1st Filter (Non-restaurant)"]>>
    /\ run.pc = "loop" /\ run.i = 2

\* The order of the strict groups: 한식, 일식, 중식, 양식, 아시안, 분식,
\* 고기, 해산물, 기타.
GroupOrder ==
    <<"hansik", "ilsik", "jungsik", "yangsik", "asian", "bunsik", "gogi",
      "haesanmul", "gita">>

\* The strict groups with a keyword in the raw category c.
MatchedGroups(c) ==
    {g \in 1..Len(GroupOrder) : \E x \in DefiniteGroups[g].kws : Contains(c, x)}

\* The bare names 한식, 일식, 중식, 양식, 아시아, 분식, 고기, 육류, 해물,
\* 해산물 and their labels.
BareNames ==
    {[kw |-> <<"han", "sig">>, label |-> "hansik"],
     [kw |-> <<"il", "sig">>, label |-> "ilsik"],
     [kw |-> <<"jung", "sig">>, label |-> "jungsik"],
     [kw |-> <<"yang", "sig">>, label |-> "yangsik"],
     [kw |-> <<"a", "si", "a">>, label |-> "asian"],
     [kw |-> <<"bun", "sig">>, label |-> "bunsik"],
     [kw |-> <<"go", "gi">>, label |-> "gogi"],
     [kw |-> <<"yug", "ryu">>, label |-> "gogi"],
     [kw |-> <<"hae", "mul">>, label |-> "haesanmul"],
     [kw |-> <<"hae", "san", "mul">>, label |-> "haesanmul"]}

\* C13: stage 2 is first-match-wins over the strict groups in the order 한식,
\* 일식, 중식, 양식, 아시안, 분식, 고기, 해산물, 기타: the label of the
\* earliest group with a keyword in the raw category is returned as definite;
\* a bare name decides only when no group keyword matches; no match at all
\* gives (기타, ambiguous); "정육식당" gives (고기, definite) and "오징어요리"
\* (해산물, definite).
C13_FirstMatchWins ==
    flt.called =>
        LET c       == flt.input
            matched == MatchedGroups(c)
            bare    == {b \in BareNames : Contains(c, b.kw)}
        IN  /\ \A g \in 1..Len(GroupOrder) : DefiniteGroups[g].label = GroupOrder[g]
            /\ \A g \in matched :
                    (\A h \in matched : g <= h) =>
                        flt.label = GroupOrder[g] /\ flt.definite
            /\ matched = {} /\ bare # {} =>
                    flt.definite /\ flt.label \in {b.label : b \in bare}
            /\ matched = {} /\ bare = {} => flt.label = Gita /\ ~flt.definite
            /\ c = <<"jeong", "yug", "sig", "dang">> =>
                    flt.label = "gogi" /\ flt.definite
            /\ c = <<"o", "jing", "eo", "yo", "ri">> =>
                    flt.label = "haesanmul" /\ flt.definite

\* "구이백반" holds a 고기 keyword before a 한식 keyword and is mapped to
\* 한식, the earlier group.
C13_Witness ==
    /\ flt.called /\ flt.input = <<"gu", "i", "baeg", "ban">>
    /\ flt.label = "hansik" /\ flt.definite

\* C14: calculate_recommendations returns min(number of qualifying rows,
\* 2 x card_limit) items (none when the cap is not positive), sorted by
\* descending final_score, items of equal final_score in the order of the
\* storage rows.
C14_RankingCap ==
    rcm.pc \in {"scored", "responded"} =>
        LET out == rcm.results
        IN  /\ Len(out) = Min(Len(rcm.rows), Max(0, 2 * rcm.card_limit))
            /\ \A j, k \in 1..Len(out) :
                    j < k =>
                        /\ out[j].final_score >= out[k].final_score
                        /\ out[j].final_score = out[k].final_score =>
                                out[j].id < out[k].id

\* C16: every item of the restaurants list of a response carries rank, equal
\* to its 1-based position, with id, name, category_mapped, distance_m and
\* final_score, and top_n is the number of items.
C16_RankedItems ==
    rcm.pc = "responded" =>
        LET items == rcm.response.restaurants
        IN  /\ rcm.response.top_n = Len(items)
            /\ \A k \in 1..Len(items) :
                    /\ ItemFields \subseteq DOMAIN items[k]
                    /\ "rank" \in DOMAIN items[k]
                    /\ items[k].rank = k

\* C15: every request that acquires a connection has one of its own; a
\* request whose acquisition fails ends with status 500 and the scoring
\* engine is not called for it; an acquired connection stays open until its
\* own request closes it, and is closed exactly once when the request is
\* done, after scoring succeeded or raised; when all requests are done no
\* connection is open.
C15_ConnectionLifecycle ==
    LET reqs  == svc.reqs
        conns == svc.conns
    IN  /\ \A r \in Requests :
            /\ (reqs[r].pc \in {"connected", "finally"} \/ reqs[r].scored) =>
                    reqs[r].conn # 0
            /\ reqs[r].conn # 0 =>
                    /\ reqs[r].conn \in 1..Len(conns)
                    /\ conns[reqs[r].conn].owner = r
            /\ reqs[r].pc = "done" /\ ~reqs[r].scored =>
                    reqs[r].status = 500 /\ reqs[r].conn = 0
            /\ reqs[r].pc \in {"connected", "finally"} =>
                    conns[reqs[r].conn].open /\ conns[reqs[r].conn].closes = 0
            /\ reqs[r].pc = "done" /\ reqs[r].scored =>
                    /\ reqs[r].status \in {200, 500}
                    /\ ~conns[reqs[r].conn].open
                    /\ conns[reqs[r].conn].closes = 1
        /\ \A c \in 1..Len(conns) :
            /\ conns[c].closes <= 1
            /\ conns[c].closes = 1 => conns[c].closed_by = conns[c].owner
        /\ \A r1, r2 \in Requests :
            r1 # r2 /\ reqs[r1].conn # 0 => reqs[r1].conn # reqs[r2].conn
        /\ (\A r \in Requests : reqs[r].pc = "done") =>
            \A c \in 1..Len(conns) : ~conns[c].open

\* Three requests are done: one failed to connect, one was scored, one
\* raised in scoring after a later request had connected; both connections
\* are closed.
C15_Witness ==
    /\ \A r \in Requests : svc.reqs[r].pc = "done"
    /\ \E r \in Requests : svc.reqs[r].conn = 0 /\ svc.reqs[r].status = 500
    /\ \E r \in Requests : svc.reqs[r].scored /\ svc.reqs[r].status = 200
    /\ \E r \in Requests :
            svc.reqs[r].scored /\ svc.reqs[r].status = 500 /\ svc.reqs[r].conn = 1
    /\ Len(svc.conns) = 2
    /\ \A c \in 1..Len(svc.conns) : ~svc.conns[c].open /\ svc.conns[c].closes = 1

\* C17: an attempt of _safe_get whose driver.get(url) raised is not reported
\* as a success: the call sleeps the backoff and goes on to a further
\* attempt, or returns False when it was the last attempt.
C17_NavigationErrorRetried ==
    [][(nav.pc = "loop" /\ nav'.gets = nav.gets + 1 /\ nav'.getRaised)
       => (/\ nav'.ret # "True"
           /\ Len(nav'.sleeps) = Len(nav.sleeps) + 1
           /\ nav'.pc = (IF nav.i + 1 < nav.tries THEN "loop" ELSE "done"))]_vars

\* C18: at most one browser session of the crawler is live at every moment,
\* and when _restart_driver constructs the new session the old one is torn
\* down, also when driver.quit() raised.
C18_OneLiveSession ==
    /\ Cardinality(drv.live) <= 1
    /\ drv.pc = "restarting" => drv.live = {}

\* The step of the loop body that resolves the identifier of candidate i.
ResolveStep == run.pc = "loop" /\ run'.last.idx = run.i

\* C19: a candidate whose resolved identifier is in the existing-ids set is
\* not crawled, gets no row in the audit CSV and is not upserted, and the loop
\* moves on; the existing-ids set changes at no step after the pre-load.
C19_ExistingIdsSkipped ==
    [][/\ run.pc # "db" => run'.existing_ids = run.existing_ids
       /\ ResolveStep /\ run'.last.pid \in run.existing_ids =>
            /\ run'.pc # "crawl"
            /\ run'.crawls = run.crawls /\ run'.audit = run.audit
            /\ run'.upserts = run.upserts /\ db' = db
            /\ ~run'.exc => run'.last.result = "exists" /\ run'.i = run.i + 1
       /\ CandidateStep => run.pid \notin run.existing_ids]_vars

\* The first candidate resolved to the stored identifier "1" and was
\* skipped; the loop is at the second candidate with nothing crawled.
C19_Witness ==
    /\ run.last.result = "exists" /\ run.last.pid = "1"
    /\ "1" \in run.existing_ids
    /\ run.pc = "loop" /\ run.i = 2
    /\ run.crawls = 0 /\ run.audit = <<>> /\ run.upserts = <<>>

\* Any step of the loop head: the identifier of candidate i is resolved.
LoopHeadStep == run.pc = "loop" /\ run' # run

\* The identifier the loop head resolved for candidate i.
ResolvedId == IF run'.pc = "crawl" THEN run'.pid ELSE run'.last.pid

C21_Original ==
    \A k \in 1..Len(nav.sleeps) :
        \E jitter \in JitterTenths :
            nav.sleeps[k] = Min(10 * (2 ^ k) + jitter, BackoffCapTenths)

\* C21: the delay slept after the k-th soft-blocked attempt of a call
\* (k = 1, 2, ...) is min(2^(k-1) + jitter, 20) seconds with jitter in
\* [0.6, 1.6]; the delays of one call are non-decreasing and none exceeds 20
\* seconds, whatever the jitter values.
C21_BackoffDelays ==
    \A k \in 1..Len(nav.sleeps) :
        /\ \E jitter \in JitterTenths :
              nav.sleeps[k] = Min(10 * (2 ^ (k - 1)) + jitter, BackoffCapTenths)
        /\ nav.sleeps[k] <= BackoffCapTenths
        /\ k > 1 => nav.sleeps[k - 1] <= nav.sleeps[k]

\* A call of 6 soft-blocked attempts: the first delay with the largest
\* jitter equals the second with the smallest, and the sixth is the cap.
C21_Witness ==
    /\ nav.pc = "done" /\ nav.ret = "False" /\ Len(nav.sleeps) = 6
    /\ nav.sleeps[1] = 26 /\ nav.sleeps[2] = 26
    /\ nav.sleeps[6] = BackoffCapTenths

\* C27: a record crawl_one returned has lat and lng both absent or both
\* present, and every dict passed to upsert_restaurant has a lat and a lng
\* that are not None, although the guard tests only name, road_address and
\* lat.
C27_CoordinatesTogether ==
    /\ \A k \in 1..Len(run.upserts) :
            run.upserts[k].lat # Null /\ run.upserts[k].lng # Null
    /\ run.last.crawled =>
            (run.last.rec.lat = Null <=> run.last.rec.lng = Null)

\* A record whose coordinate object had y but no usable x was upserted: its
\* lng is the text of None, not None.
C27_Witness ==
    /\ run.last.upserted /\ run.upserts # <<>>
    /\ run.upserts[Len(run.upserts)].lat = "37.4"
    /\ run.upserts[Len(run.upserts)].lng = "'None'"

\* The original statement of C22: after the restart the open + frame-entry
\* sequence is tried twice before the identifier-only record is returned.
C22_Original ==
    /\ crl.pc = "done" /\ crl.restarts = 1 /\ crl.ret = "id_only"
    /\ crl.opens[Len(crl.opens)].ok
    => crl.reentries = 2

\* C22: the frame-entry loop makes at most 3 attempts; when all 3 end in
\* continue, exactly one session restart is performed, after which the open
\* is one _safe_get call with 2 navigation attempts and the frame is entered
\* at most once; if the open or the frame entry then fails, the
\* identifier-only record is returned.  No call restarts the session twice,
\* and no call restarts it before 3 attempts have failed.
C22_FrameEntryProtocol ==
    /\ crl.attempt <= FrameAttempts /\ crl.entries <= FrameAttempts
    /\ crl.restarts <= 1 /\ crl.reentries <= crl.restarts
    /\ crl.restarts = 1 => crl.attempt = FrameAttempts
    /\ crl.attempt = FrameAttempts => crl.pc = "restart" \/ crl.restarts = 1
    /\ crl.restarts = 1 /\ crl.ret # "raised" =>
            /\ Len(crl.opens) = FrameAttempts + 2
            /\ crl.opens[Len(crl.opens)].tries = 2
            /\ crl.reentries = 1 <=> crl.opens[Len(crl.opens)].ok
    /\ crl.restarts = 1 /\ crl.pc = "done" /\ crl.ret # "raised" /\ ~crl.framed =>
            /\ crl.ret = "id_only" /\ crl.rec = PlaceRecord(crl.pid)
            /\ ~crl.extracted

\* Three attempts ended in continue, the session was restarted once, the
\* page opened and the one frame entry timed out: the identifier-only record
\* was returned.
C22_Witness ==
    /\ crl.pc = "done" /\ crl.ret = "id_only" /\ crl.rec = PlaceRecord("1")
    /\ crl.attempt = 3 /\ crl.entries = 3 /\ crl.restarts = 1
    /\ crl.opens[5] = [tries |-> 2, ok |-> TRUE] /\ crl.reentries = 1

\* C23: when the initial _safe_get(url, tries=5) fails, crawl_one returns the
\* record with only place_id set, without a frame entry, a session restart or
\* an extraction step.
C23_OpenFailure ==
    crl.opens # <<>> /\ ~crl.opens[1].ok =>
        /\ crl.opens = <<[tries |-> 5, ok |-> FALSE]>>
        /\ crl.pc = "done" /\ crl.ret = "id_only"
        /\ crl.rec = PlaceRecord(crl.pid)
        /\ crl.entries = 0 /\ crl.reentries = 0 /\ crl.restarts = 0
        /\ ~crl.framed /\ ~crl.extracted

\* The open of place 2 failed and the identifier-only record was returned.
C23_Witness ==
    /\ crl.pc = "done" /\ crl.pid = "2" /\ crl.ret = "id_only"
    /\ crl.opens = <<[tries |-> 5, ok |-> FALSE]>>

\* C25: the extraction steps run only after the last evaluation of the entry
\* frame found the page loaded or ambiguous.
C25_ExtractionAfterEvaluation ==
    crl.pc = "extract" \/ crl.extracted => crl.lastEval \in {"loaded", "ambiguous"}

\* C24: a 2-second sleep precedes every candidate of the range except the
\* first, also a candidate that is then skipped, and a 60-second cooldown
\* follows it exactly before the candidates at offsets 50, 100, ... from the
\* start of the range.
C24_RateLimiting ==
    pace.idx > 0 =>
        LET offset == pace.idx - pace.start_idx
            cooled == \E k \in 1..Len(pace.before) : pace.before[k] = 60
        IN  /\ offset = 0 => pace.before = <<>>
            /\ offset > 0 => pace.before # <<>> /\ pace.before[1] = 2
            /\ cooled <=> \E m \in 1..MaxRange : offset = 50 * m
            /\ pace.before \in {<<>>, <<2>>, <<2, 60>>}

\* In a run started at index 3, the skipped candidate at offset 100 was
\* preceded by the 2-second sleep and the cooldown.
C24_Witness ==
    /\ pace.start_idx = 3 /\ pace.idx = 103 /\ pace.skipped
    /\ pace.before = <<2, 60>>

\* C30: after any sequence of classify calls the in-memory category cache
\* has the entries of the cache file (those loaded at construction and those
\* written since), and a call answered from the cache returns the pair the
\* call before it for the same place id returned.
C30_CacheConsistency ==
    /\ llm.disk.state = "json" => llm.cache = llm.disk.entries
    /\ \A p \in PlaceIds :
            /\ llm.last[p].path = "hit"
            /\ llm.prev[p].path \in {"hit", "success", "fail"}
            => SamePair(p)

\* C26: every dict passed to upsert_restaurant has a category_mapped among
\* the nine labels, whether it came from the stage-2 rule table, from a fresh
\* classifier call or from the classifier's cache.
C26_UpsertedLabelInNine ==
    \A k \in 1..Len(run.upserts) :
        run.upserts[k].category_mapped \in allowed_categories

\* A candidate of ambiguous category was upserted with the fallback label
\* after the classifier answered "카페", a label outside the nine.
C26_Witness ==
    /\ run.last.upserted /\ run.last.called /\ run.last.pid = "2"
    /\ run.upserts[Len(run.upserts)].category_mapped = Gita
    /\ "2" \in DOMAIN llm.cache /\ llm.cache["2"].dict
    /\ llm.disk.state = "json" /\ "2" \in DOMAIN llm.disk.entries

\* C28: the raw category that is exactly a keyword k of the strict group G
\* maps to (G, definite): no keyword is shadowed by a keyword of an earlier
\* group.
C28_EveryKeywordEffective ==
    flt.called =>
        \A g \in 1..Len(DefiniteGroups) :
            flt.input \in DefiniteGroups[g].kws =>
                flt.label = DefiniteGroups[g].label /\ flt.definite

\* The keywords of the strict groups that do not map to their own group.
ShadowedKeywords ==
    {k \in UNION {DefiniteGroups[g].kws : g \in 1..Len(DefiniteGroups)} :
        \E g \in 1..Len(DefiniteGroups) :
            /\ k \in DefiniteGroups[g].kws
            /\ categorize_restaurant(k).label # DefiniteGroups[g].label}

\* The shadowed keywords are "쌀국수", "조개구이" and "생선구이".
ShadowedAreThree ==
    ShadowedKeywords = {<<"ssal", "gug", "su">>, <<"jo", "gae", "gu", "i">>,
                        <<"saeng", "seon", "gu", "i">>}

\* C29: within one run no place identifier is passed to upsert_restaurant
\* twice, and none is crawled twice (a fully extracted audit row is written
\* by one crawl_one call that returned).
C29_OncePerIdentifier ==
    /\ \A j, k \in 1..Len(run.upserts) :
            j < k => run.upserts[j].id # run.upserts[k].id
    /\ \A j, k \in 1..Len(run.audit) :
            j < k /\ ~run.audit[j].id_only /\ ~run.audit[k].id_only
            => run.audit[j].place_id # run.audit[k].place_id

====
